---- MODULE Spec2Model ----
(***************************************************************************)
(* A model of the blog client of IraSidorenk0/swr_test_task: the posts and *)
(* comments Redux slices (store/slices/postsSlice.ts, commentsSlice.ts),   *)
(* the thunks that talk to the document store, and the handlers of the     *)
(* view (PostList, PostForm) that dispatch them.                           *)
(*                                                                         *)
(* The document store and the identity provider are external: a store call *)
(* is a step that either succeeds with the effect Firestore documents for  *)
(* it, or throws.                                                          *)
(***************************************************************************)
EXTENDS Integers, Sequences, FiniteSets, TLC

VARIABLES
    postsState,     \* the posts slice: [posts, likedPostIds, loading, error, filters]
    commentsState,  \* the comments slice: [commentsByPost, loading, error]
    dbPosts,        \* store, collection posts: id -> document, for the documents that exist
    dbLikes,        \* store, sub-collections posts/{id}/likes: set of <<postId, userId>>
    user,           \* PostList's user state (the uid, or None)
    toggles,        \* handleToggleLike invocations in flight
    likedFetch,     \* fetchLikedStates thunks in flight
    dbComments,     \* store, collection comments: id -> document
    fetch,          \* the fetchPosts thunk, by its pc
    commentsFetch,  \* the fetchComments thunk, by its pc
    page,           \* the route shown: "list" (PostList) or "detail" (PostDetail, CommentList)
    thunks,         \* createPost / updatePost / deletePost thunks in flight
    form,           \* PostForm's component state
    edit,           \* PostList's edit state
    calls,          \* the network calls a view handler has issued, in order
    clock,          \* the client's clock, in milliseconds: what new Date() reads
    commentThunks,  \* createComment / updateComment / deleteComment thunks in flight
    commentForm,    \* CommentForm's component state
    detail,         \* PostDetail's component state
    hist            \* history of the run, read only by the properties

vars == <<postsState, commentsState, dbPosts, dbLikes, dbComments, user, toggles,
          likedFetch, fetch, commentsFetch, page, thunks, form, edit, calls, clock,
          commentThunks, commentForm, detail, hist>>

None == "none"

Max(a, b) == IF a >= b THEN a ELSE b

\* Array.prototype.filter on a sequence
Filter(s, Keep(_)) == SelectSeq(s, Keep)

\* Array.prototype.includes
Includes(s, x) == \E i \in DOMAIN s : s[i] = x

\* Array.prototype.findIndex on posts by id; 0 stands for the code's -1 / undefined
FindIndex(ps, id) ==
    IF \E i \in DOMAIN ps : ps[i].id = id
    THEN CHOOSE i \in DOMAIN ps : ps[i].id = id /\ \A j \in 1..(i - 1) : ps[j].id # id
    ELSE 0

\* removal of the element at index i
RemoveAt(s, i) == [j \in 1..(Len(s) - 1) |-> IF j < i THEN s[j] ELSE s[j + 1]]

Min(S) == CHOOSE x \in S : \A y \in S : x <= y

\* action.error.message || fallback
MessageOr(message, fallback) == IF message = "" THEN fallback ELSE message

\* the message of the error a refused store write throws
Refused == "permission-denied"

\* Array.prototype.sort, which is stable: Cmp(a, b) > 0 puts a after b. Built by
\* inserting the elements from left to right.
Insert(t, x, Cmp(_, _)) ==
    LET after == {j \in DOMAIN t : Cmp(t[j], x) > 0}
        k == IF after = {} THEN Len(t) + 1 ELSE Min(after)
    IN SubSeq(t, 1, k - 1) \o <<x>> \o SubSeq(t, k, Len(t))

Sort(s, Cmp(_, _)) ==
    LET ins[k \in 0..Len(s)] == IF k = 0 THEN <<>> ELSE Insert(ins[k - 1], s[k], Cmp)
    IN ins[Len(s)]

(***************************************************************************)
(* Strings are sequences of characters; the operators below are the String *)
(* methods the code calls.                                                 *)
(***************************************************************************)
toLowerCaseChar(c) ==
    CASE c = "A" -> "a"
      [] c = "B" -> "b"
      [] c = "R" -> "r"
      [] OTHER -> c

toLowerCase(str) == [i \in DOMAIN str |-> toLowerCaseChar(str[i])]

\* String.prototype.trim: the whitespace at both ends is dropped
trim(str) ==
    LET solid == {i \in DOMAIN str : str[i] # " "}
    IN IF solid = {} THEN <<>>
       ELSE SubSeq(str, Min(solid), CHOOSE i \in solid : \A j \in solid : j <= i)

startsWith(str, prefix) ==
    /\ Len(prefix) <= Len(str)
    /\ SubSeq(str, 1, Len(prefix)) = prefix

(***************************************************************************)
(* Times. A stored createdAt is a Firestore Timestamp (milliseconds and    *)
(* the part of a millisecond below them), an ISO string written by the     *)
(* setDoc fallback of createPost, or absent.                               *)
(***************************************************************************)
Timestamp(ms, sub) == [kind |-> "ts", ms |-> ms, sub |-> sub]
IsoString(ms) == [kind |-> "iso", ms |-> ms, sub |-> 0]
NoTime == [kind |-> "none", ms |-> 0, sub |-> 0]

\* a createdAt stored as a number of milliseconds
Millis(ms) == [kind |-> "num", ms |-> ms, sub |-> 0]

\* a createdAt stored as a string that is no date, such as "yesterday": new Date(s) is
\* an Invalid Date and its getTime() is NaN; as a string it orders above the ISO strings
Unparseable == [kind |-> "bad", ms |-> 9, sub |-> 0]

\* Number.isNaN(new Date(t).getTime())
IsNaN(t) == t.kind = "bad"

\* data?.createdAt?.toDate ? data.createdAt.toDate().toISOString() : data?.createdAt
toISOString(t) == IF t.kind = "ts" THEN IsoString(t.ms) ELSE t

\* ta && typeof ta.toMillis === 'function' ? ta.toMillis() : (ta ? new Date(ta).getTime() : 0)
SortValue(t) == IF t.kind = "none" THEN 0 ELSE t.ms

(***************************************************************************)
(* Bounds of the model.                                                    *)
(***************************************************************************)
MaxToggles == 3      \* toggles issued in one run
MaxLikes0 == 1       \* largest counter a post starts with
MaxRefresh == 2      \* fetchLikedStates dispatched in one run
MaxMs == 2           \* largest creation time of a stored document, in milliseconds

PostIds == {"p1", "p2"}
Users == {"u1"}

\* new Date(): the client's clock
Now == clock

\* serverTimestamp() as the store resolves it: no stored time is later than the server's
ServerNow == MaxMs

(***************************************************************************)
(* postsSlice reducers (src/unnamed/part_000).                             *)
(***************************************************************************)
initialState ==
    [posts |-> <<>>, likedPostIds |-> <<>>, loading |-> FALSE, error |-> None,
     filters |-> [author |-> <<>>, tag |-> <<>>]]

\* commentsSlice's initialState
initialComments == [commentsByPost |-> <<>>, loading |-> FALSE, error |-> None]

\* post.likes = Math.max(0, (post.likes || 0) + delta) on the post found by id
AdjustLikes(ps, postId, delta) ==
    LET i == FindIndex(ps, postId)
    IN IF i = 0 THEN ps ELSE [ps EXCEPT ![i].likes = Max(0, @ + delta)]

\* if (!likedPostIds.includes(postId)) likedPostIds.push(postId)
PushLiked(ids, postId) == IF Includes(ids, postId) THEN ids ELSE Append(ids, postId)

\* likedPostIds.filter(id => id !== postId)
DropLiked(ids, postId) == LET Keep(id) == id # postId IN Filter(ids, Keep)

optimisticToggleLike(state, postId, increment, isLiked) ==
    [state EXCEPT
        !.posts = AdjustLikes(@, postId, increment),
        !.likedPostIds = IF isLiked THEN PushLiked(@, postId) ELSE DropLiked(@, postId)]

revertOptimisticLike(state, postId, increment, isLiked) ==
    [state EXCEPT
        !.posts = AdjustLikes(@, postId, -increment),
        !.likedPostIds = IF isLiked THEN DropLiked(@, postId) ELSE PushLiked(@, postId)]

toggleLikeFulfilled(state, postId, increment, isLiked) ==
    [state EXCEPT
        !.posts = AdjustLikes(@, postId, increment),
        !.likedPostIds = IF isLiked THEN PushLiked(@, postId) ELSE DropLiked(@, postId)]

toggleLikeRejected(state, message) ==
    [state EXCEPT !.error = MessageOr(message, "Failed to toggle like")]

fetchLikedStatesFulfilled(state, payload) == [state EXCEPT !.likedPostIds = payload]

(***************************************************************************)
(* The like protocol: PostList.handleToggleLike and the toggleLike and     *)
(* fetchLikedStates thunks.                                                *)
(***************************************************************************)
\* a cached post / a stored document, with the fields the like protocol does not read
MkPost(id, likes) ==
    [id |-> id, likes |-> likes, authorId |-> "u0", authorName |-> <<"B">>,
     title |-> [len |-> 5, pad |-> 0], content |-> [len |-> 10, pad |-> 0],
     tags |-> <<>>, createdAt |-> IsoString(1), updatedAt |-> IsoString(1)]

Liked(p) == Includes(postsState.likedPostIds, p)

ShownLikes(p) == postsState.posts[FindIndex(postsState.posts, p)].likes

Cached(p) == FindIndex(postsState.posts, p) # 0

\* a handler that refuses a click while a toggle is in flight
AcceptsWhenIdle(p) == user # None /\ Cached(p) /\ toggles = <<>>

\* the like button of a listed post: if (!user) { alert(...); return; } and nothing else
\* stands between the click and the toggle
Accepts(p) == user # None /\ Cached(p)

\* PostList.handleToggleLike up to its await: the optimistic reducer, then the thunk
handleToggleLike(p) ==
    /\ Accepts(p)
    /\ hist.issued < MaxToggles
    /\ LET isLiked == Liked(p)
           increment == IF isLiked THEN -1 ELSE 1
       IN /\ postsState' = optimisticToggleLike(postsState, p, increment, ~isLiked)
          /\ toggles' = Append(toggles,
                [postId |-> p, userId |-> user, isLiked |-> isLiked,
                 increment |-> increment, pc |-> "marker",
                 likes0 |-> ShownLikes(p), liked0 |-> isLiked])
          /\ hist' = [hist EXCEPT
                !.issued = @ + 1,
                !.overlap = @ \/ toggles # <<>>,
                !.expected[p] = Max(0, @ + increment),
                !.parity[p] = 1 - @,
                !.reverted = <<>>]
    /\ UNCHANGED <<clock, commentThunks, commentForm, detail, commentsState, dbPosts, dbLikes, user, likedFetch, fetch, commentsFetch, dbComments, page, thunks, form, edit, calls>>

\* a counter adjustment applied twice
FieldIncrementTwice(value, n) == value + n + n

\* increment(n) as the store applies it to a numeric field: no floor, no read by the client
FieldIncrement(value, n) == value + n

\* toggleLike: deleteDoc(likeDocRef) when isLiked, setDoc(likeDocRef, ...) otherwise
toggleLikeMarker(i, ok) ==
    /\ i \in DOMAIN toggles
    /\ toggles[i].pc = "marker"
    /\ LET t == toggles[i]
           ref == <<t.postId, t.userId>>
       IN IF ok
          THEN /\ dbLikes' = IF t.isLiked THEN dbLikes \ {ref} ELSE dbLikes \cup {ref}
               /\ toggles' = [toggles EXCEPT ![i].pc = "counter"]
               /\ hist' = [hist EXCEPT !.reverted = <<>>]
          ELSE /\ dbLikes' = dbLikes
               /\ toggles' = [toggles EXCEPT ![i].pc = "rejected"]
               /\ hist' = [hist EXCEPT !.failed = TRUE, !.reverted = <<>>]
    /\ UNCHANGED <<clock, commentThunks, commentForm, detail, postsState, commentsState, dbPosts, user, likedFetch, fetch, commentsFetch, dbComments, page, thunks, form, edit, calls>>

\* toggleLike: updateDoc(doc(db, 'posts', postId), { likes: increment(+-1) })
toggleLikeCounter(i, ok) ==
    /\ i \in DOMAIN toggles
    /\ toggles[i].pc = "counter"
    /\ LET t == toggles[i]
       IN IF ok /\ t.postId \in DOMAIN dbPosts
          THEN /\ dbPosts' = [dbPosts EXCEPT
                     ![t.postId].likes = FieldIncrement(@, IF t.isLiked THEN -1 ELSE 1)]
               /\ toggles' = [toggles EXCEPT ![i].pc = "fulfilled"]
               /\ hist' = [hist EXCEPT !.contrib[t.postId] = @ + t.increment,
                                       !.reverted = <<>>]
          ELSE /\ dbPosts' = dbPosts
               /\ toggles' = [toggles EXCEPT ![i].pc = "rejected"]
               /\ hist' = [hist EXCEPT !.failed = TRUE, !.reverted = <<>>]
    /\ UNCHANGED <<clock, commentThunks, commentForm, detail, postsState, commentsState, dbLikes, user, likedFetch, fetch, commentsFetch, dbComments, page, thunks, form, edit, calls>>

\* the thunk fulfils: toggleLike.fulfilled; unwrap() resolves and the handler ends
toggleLikeDone(i) ==
    /\ i \in DOMAIN toggles
    /\ toggles[i].pc = "fulfilled"
    /\ LET t == toggles[i]
       IN postsState' = toggleLikeFulfilled(postsState, t.postId, t.increment, ~t.isLiked)
    /\ toggles' = RemoveAt(toggles, i)
    /\ hist' = [hist EXCEPT !.reverted = <<>>]
    /\ UNCHANGED <<clock, commentThunks, commentForm, detail, commentsState, dbPosts, dbLikes, user, likedFetch, fetch, commentsFetch, dbComments, page, thunks, form, edit, calls>>

\* the thunk rejects: toggleLike.rejected; unwrap() throws and the handler's catch
\* dispatches revertOptimisticLike
toggleLikeFailed(i) ==
    /\ i \in DOMAIN toggles
    /\ toggles[i].pc = "rejected"
    /\ LET t == toggles[i]
       IN /\ postsState' = revertOptimisticLike(toggleLikeRejected(postsState, Refused),
                                                t.postId, t.increment, ~t.isLiked)
          /\ hist' = [hist EXCEPT
                !.reverted = <<[postId |-> t.postId, likes |-> t.likes0, liked |-> t.liked0]>>]
    /\ toggles' = RemoveAt(toggles, i)
    /\ UNCHANGED <<clock, commentThunks, commentForm, detail, commentsState, dbPosts, dbLikes, user, likedFetch, fetch, commentsFetch, dbComments, page, thunks, form, edit, calls>>

\* PostList's auth listener: setUser, and fetchLikedStates when posts are loaded
authStateChanged(u) ==
    /\ hist.refreshes < MaxRefresh
    /\ user' = u
    /\ IF u # None /\ Len(postsState.posts) > 0
       THEN likedFetch' = Append(likedFetch,
                [userId |-> u, pc |-> "read", result |-> <<>>,
                 posts |-> [i \in DOMAIN postsState.posts |-> postsState.posts[i].id]])
       ELSE likedFetch' = likedFetch
    /\ hist' = [hist EXCEPT !.refreshes = @ + 1, !.reverted = <<>>]
    /\ UNCHANGED <<clock, commentThunks, commentForm, detail, postsState, commentsState, dbPosts, dbLikes, toggles, fetch, commentsFetch, dbComments, page, thunks, form, edit, calls>>

\* fetchLikedStates: getDoc of every post's like marker; a read that throws counts as
\* "not liked" (the catch returns null); results.filter(Boolean)
fetchLikedStatesRead(i, failing) ==
    /\ i \in DOMAIN likedFetch
    /\ likedFetch[i].pc = "read"
    /\ LET f == likedFetch[i]
           Exists(p) == <<p, f.userId>> \in dbLikes /\ p \notin failing
       IN likedFetch' = [likedFetch EXCEPT ![i].pc = "done",
                                           ![i].result = Filter(f.posts, Exists)]
    /\ hist' = [hist EXCEPT !.reverted = <<>>]
    /\ UNCHANGED <<clock, commentThunks, commentForm, detail, postsState, commentsState, dbPosts, dbLikes, user, toggles, fetch, commentsFetch, dbComments, page, thunks, form, edit, calls>>

fetchLikedStatesDone(i) ==
    /\ i \in DOMAIN likedFetch
    /\ likedFetch[i].pc = "done"
    /\ postsState' = fetchLikedStatesFulfilled(postsState, likedFetch[i].result)
    /\ likedFetch' = RemoveAt(likedFetch, i)
    /\ hist' = [hist EXCEPT !.refreshed = TRUE, !.reverted = <<>>]
    /\ UNCHANGED <<clock, commentThunks, commentForm, detail, commentsState, dbPosts, dbLikes, user, toggles, fetch, commentsFetch, dbComments, page, thunks, form, edit, calls>>

(***************************************************************************)
(* The like protocol with one toggle at a time: handleToggleLike is issued *)
(* only after the previous toggle has settled.                             *)
(***************************************************************************)
handleToggleLikeSeq(p) == toggles = <<>> /\ handleToggleLike(p)

HistInit ==
    [issued |-> 0, overlap |-> FALSE, failed |-> FALSE, refreshes |-> 0,
     refreshed |-> FALSE, reverted |-> <<>>,
     expected |-> [p \in PostIds |-> 0], parity |-> [p \in PostIds |-> 0],
     contrib |-> [p \in PostIds |-> 0], marker0 |-> {},
     submits |-> 0, deleted |-> <<>>, tagEdits |-> 0, outcome |-> None,
     commentOps |-> 0, fetched |-> 0, args |-> <<>>, last |-> <<>>,
     same |-> FALSE]

(***************************************************************************)
(* The state of the view's components. A title or a content is kept by its *)
(* length and by how much of it is whitespace at its two ends; a tag is a  *)
(* string.                                                                 *)
(***************************************************************************)
Text(len, pad) == [len |-> len, pad |-> pad]

\* String.prototype.trim on a title or content
trimText(t) == Text(t.len - t.pad, 0)

NoErrors == [title |-> None, content |-> None, tags |-> None]

\* PostList: editingPostId, editData, editErrors, isEditing as useState sets them
editInitial ==
    [editingPostId |-> None,
     editData |-> [title |-> Text(0, 0), content |-> Text(0, 0), tags |-> <<>>, likes |-> 0],
     editErrors |-> NoErrors,
     isEditing |-> FALSE]

\* PostForm: formData, fieldErrors, submitMessage, isSubmitting, isOnline as useState
\* sets them, and PostList's showPostForm. pc is the position of onSubmit, snapshot the
\* formData it closed over, mounted whether the PostForm it runs for is still the one
\* shown, timers the onSuccess timeouts not yet fired.
formInitial ==
    [formData |-> [title |-> Text(0, 0), content |-> Text(0, 0), tags |-> <<>>],
     fieldErrors |-> NoErrors,
     submitMessage |-> None,
     isSubmitting |-> FALSE,
     isOnline |-> TRUE,
     showPostForm |-> FALSE,
     pc |-> "idle",
     snapshot |-> [title |-> Text(0, 0), content |-> Text(0, 0), tags |-> <<>>],
     mounted |-> FALSE,
     timers |-> 0]

\* CommentForm: formData, fieldErrors, submitMessage, isSubmitting as useState sets them
commentFormInitial ==
    [formData |-> [content |-> Text(0, 0)],
     fieldErrors |-> [content |-> None],
     submitMessage |-> None,
     isSubmitting |-> FALSE]

\* PostDetail: post, liked, liking as useState sets them (post not loaded yet); toggle is
\* the handleLike in flight, reads the liked-state reads of the auth listener in flight
detailInitial ==
    [postId |-> None, post |-> <<>>, liked |-> FALSE, liking |-> FALSE,
     toggle |-> <<>>, reads |-> <<>>]

ViewInit ==
    /\ form = formInitial
    /\ edit = editInitial
    /\ thunks = <<>>
    /\ fetch = [pc |-> "idle"]
    /\ commentsFetch = [pc |-> "idle"]
    /\ calls = <<>>
    /\ clock = MaxMs
    /\ commentThunks = <<>>
    /\ commentForm = commentFormInitial
    /\ detail = detailInitial

\* The posts are loaded and show the store's counters; the like markers of an earlier
\* session may exist, and likedPostIds is still the slice's initial [].
InitLike ==
    /\ \E l \in [PostIds -> 0..MaxLikes0], m \in SUBSET (PostIds \X Users) :
          /\ \A p \in PostIds : <<p, "u1">> \in m => l[p] >= 1
          /\ postsState = [initialState EXCEPT
                !.posts = <<MkPost("p1", l["p1"]), MkPost("p2", l["p2"])>>]
          /\ dbPosts = [p \in PostIds |-> MkPost(p, l[p])]
          /\ dbLikes = m
          /\ hist = [HistInit EXCEPT
                !.expected = l, !.marker0 = m,
                !.contrib = [p \in PostIds |-> IF <<p, "u1">> \in m THEN 1 ELSE 0]]
    /\ commentsState = initialComments
    /\ dbComments = <<>>
    /\ user = None
    /\ toggles = <<>>
    /\ likedFetch = <<>>
    /\ page = "list"
    /\ ViewInit

NextLike ==
    \/ \E p \in PostIds : handleToggleLikeSeq(p)
    \/ \E i \in 1..MaxToggles, ok \in BOOLEAN : toggleLikeMarker(i, ok)
    \/ \E i \in 1..MaxToggles, ok \in BOOLEAN : toggleLikeCounter(i, ok)
    \/ \E i \in 1..MaxToggles : toggleLikeDone(i)
    \/ \E i \in 1..MaxToggles : toggleLikeFailed(i)
    \/ \E u \in Users \cup {None} : authStateChanged(u)
    \/ \E i \in 1..MaxRefresh, failing \in SUBSET PostIds : fetchLikedStatesRead(i, failing)
    \/ \E i \in 1..MaxRefresh : fetchLikedStatesDone(i)

SpecLike == InitLike /\ [][NextLike]_vars

\* the run so far is the one C1 speaks of: the user started with no marker and an
\* unloaded liked set has not been replaced, every store call succeeded, no toggle
\* is in flight
SettledCleanRun ==
    /\ toggles = <<>>
    /\ ~hist.failed
    /\ ~hist.refreshed
    /\ hist.marker0 = {}

(* C1: after toggles issued one at a time whose store calls all succeeded, the
   displayed counter of the post has moved by +1 per like and -1 per unlike, floored
   at zero, and the post is in likedPostIds exactly when the number of toggles is odd. *)
C1_ToggleCountsOnce ==
    SettledCleanRun =>
        \A p \in PostIds :
            /\ ShownLikes(p) = hist.expected[p]
            /\ Liked(p) <=> hist.parity[p] = 1

(* C2: right after revertOptimisticLike has run for a failed toggle, the counter and
   the liked membership of the post are those from before optimisticToggleLike. *)
C2_RevertRestores ==
    hist.reverted # <<>> =>
        LET r == hist.reverted[1]
        IN /\ ShownLikes(r.postId) = r.likes
           /\ Liked(r.postId) <=> r.liked

(* C9: once the toggles have settled with every store call having succeeded, the
   amount the user has added to the store counter of a post is 1 when the user's
   like marker exists and 0 when it does not. *)
C9_LikeIdempotent ==
    (toggles = <<>> /\ ~hist.failed) =>
        \A p \in PostIds :
            hist.contrib[p] = IF <<p, "u1">> \in dbLikes THEN 1 ELSE 0

(***************************************************************************)
(* The document store's queries (Firestore, external). A query throws or   *)
(* returns the matching documents: in the order of the sort clause when it *)
(* has one (documents without the field are left out, strings order above  *)
(* timestamps, ties by document id), by document id otherwise.             *)
(***************************************************************************)
DocIds == <<"c1", "c2", "c3", "c4", "c5", "c6", "p1", "p2", "p3", "p4", "p5", "p6">>

Errors == {"index", "FAILED_PRECONDITION", "permission-denied"}

StoredPosts ==
    LET Exists(id) == id \in DOMAIN dbPosts
        ids == Filter(DocIds, Exists)
    IN [i \in DOMAIN ids |-> dbPosts[ids[i]]]

\* authorFilter?.trim() is truthy
Applied(f) == trim(f) # <<>>

\* where('authorName', '==', authorFilter.trim()), where('tags', 'array-contains', tagFilter.trim())
baseConstraints(doc, authorFilter, tagFilter) ==
    /\ Applied(authorFilter) => doc.authorName = trim(authorFilter)
    /\ Applied(tagFilter) => Includes(doc.tags, trim(tagFilter))

IdRank(id) == CHOOSE i \in DOMAIN DocIds : DocIds[i] = id

\* the store orders values of different types: numbers, then timestamps, then strings
KindRank(t) == IF t.kind \in {"iso", "bad"} THEN 2 ELSE IF t.kind = "num" THEN 0 ELSE 1

\* a sorts after b under orderBy('createdAt', 'desc')
OrderByDesc(a, b) ==
    LET ta == a.createdAt
        tb == b.createdAt
        below ==
            \/ KindRank(ta) < KindRank(tb)
            \/ KindRank(ta) = KindRank(tb) /\ ta.ms < tb.ms
            \/ KindRank(ta) = KindRank(tb) /\ ta.ms = tb.ms /\ ta.sub < tb.sub
            \/ ta = tb /\ IdRank(a.id) < IdRank(b.id)
    IN IF below THEN 1 ELSE 0

\* getDocs(query(collection(db, 'posts'), ...baseConstraints))
getDocsWithoutOrder(authorFilter, tagFilter) ==
    LET Hit(doc) == baseConstraints(doc, authorFilter, tagFilter)
    IN Filter(StoredPosts, Hit)

\* getDocs(query(collection(db, 'posts'), ...baseConstraints, orderBy('createdAt', 'desc')))
getDocsWithOrder(authorFilter, tagFilter) ==
    LET Hit(doc) == baseConstraints(doc, authorFilter, tagFilter) /\ doc.createdAt.kind # "none"
    IN Sort(Filter(StoredPosts, Hit), OrderByDesc)

(***************************************************************************)
(* fetchPosts (src/unnamed/part_000, lines 7-101).                         *)
(***************************************************************************)
\* the Post pushed for a snapshot document
ToPost(doc) == [doc EXCEPT !.createdAt = toISOString(@), !.updatedAt = toISOString(@)]

ToPosts(snapshot) == [i \in DOMAIN snapshot |-> ToPost(snapshot[i])]

\* the messages of the store's index-required errors
IndexRequiredErrors == {"index", "FAILED_PRECONDITION"}

\* a catch that retries whatever the error is
IndexRequiredAlways(e) == TRUE

\* message.includes('index') || message.includes('FAILED_PRECONDITION')
IndexRequired(e) == e \in IndexRequiredErrors

\* the fallback filter with the two conditions joined by || instead of &&
PartialMatchEither(post, authorFilter, tagFilter) ==
    LET authorTerm == toLowerCase(trim(authorFilter))
        tagTerm == toLowerCase(trim(tagFilter))
    IN \/ authorTerm # <<>> /\ startsWith(toLowerCase(post.authorName), authorTerm)
       \/ tagTerm # <<>> /\
             \E i \in DOMAIN post.tags : startsWith(toLowerCase(post.tags[i]), tagTerm)

\* the filter of the partial fallback: case-insensitive prefix on the author name and
\* on some tag, both when both are given
PartialMatch(post, authorFilter, tagFilter) ==
    LET authorTerm == toLowerCase(trim(authorFilter))
        tagTerm == toLowerCase(trim(tagFilter))
        matchesAuthor ==
            IF authorTerm # <<>> THEN startsWith(toLowerCase(post.authorName), authorTerm)
            ELSE TRUE
        matchesTag ==
            IF tagTerm # <<>>
            THEN \E i \in DOMAIN post.tags : startsWith(toLowerCase(post.tags[i]), tagTerm)
            ELSE TRUE
    IN matchesAuthor /\ matchesTag

\* the comparator of the final sort: vb - va, which is NaN when va or vb is; sort takes
\* a NaN result as 0
ByCreatedAtDesc(a, b) ==
    IF IsNaN(a.createdAt) \/ IsNaN(b.createdAt) THEN 0
    ELSE SortValue(b.createdAt) - SortValue(a.createdAt)

\* the final sort with the comparator turned round: va - vb
ByCreatedAtAsc(a, b) == SortValue(a.createdAt) - SortValue(b.createdAt)

SortPostsAscending(resultPosts) == Sort(resultPosts, ByCreatedAtAsc)

SortPosts(resultPosts) == Sort(resultPosts, ByCreatedAtDesc)

fetchPostsPending(state) == [state EXCEPT !.loading = TRUE, !.error = None]

fetchPostsFulfilled(state, payload) == [state EXCEPT !.loading = FALSE, !.posts = payload]

fetchPostsRejected(state, message) ==
    [state EXCEPT !.loading = FALSE, !.error = MessageOr(message, "Failed to fetch posts")]

\* the thunk from a snapshot on: the partial fallback is tried when a filter is applied
\* and nothing matched, otherwise the posts are sorted and returned
AfterSnapshot(f, snapshot) ==
    LET resultPosts == ToPosts(snapshot)
        hasAnyApplied == Applied(f.authorFilter) \/ Applied(f.tagFilter)
    IN IF hasAnyApplied /\ Len(resultPosts) = 0
       THEN [f EXCEPT !.pc = "fallback", !.resultPosts = resultPosts]
       ELSE [f EXCEPT !.pc = "fulfilled", !.resultPosts = resultPosts,
                      !.payload = SortPosts(resultPosts)]

\* PostList's effect: dispatch(fetchPosts({ authorFilter, tagFilter })); fetchPosts.pending
fetchPostsDispatch(authorFilter, tagFilter) ==
    /\ page = "list"
    /\ fetch.pc = "idle"
    /\ postsState' = fetchPostsPending(postsState)
    /\ fetch' = [pc |-> "ordered", authorFilter |-> authorFilter, tagFilter |-> tagFilter,
                 path |-> "ordered", resultPosts |-> <<>>, payload |-> <<>>,
                 thrown |-> <<>>, message |-> None]
    /\ UNCHANGED <<clock, commentThunks, commentForm, detail, commentsState, dbPosts, dbLikes, dbComments, user, toggles, likedFetch,
                   commentsFetch, page, thunks, form, edit, calls, hist>>

\* the ordered query answers: a snapshot, an index-required error (retry), or another
\* error (thrown on)
fetchPostsOrdered(outcome) ==
    /\ fetch.pc = "ordered"
    /\ fetch' =
         IF outcome = "ok"
         THEN AfterSnapshot(fetch, getDocsWithOrder(fetch.authorFilter, fetch.tagFilter))
         ELSE IF IndexRequired(outcome)
         THEN [fetch EXCEPT !.pc = "retry", !.path = "retry",
                            !.thrown = Append(@, <<"ordered", outcome>>)]
         ELSE [fetch EXCEPT !.pc = "rejected", !.message = outcome,
                            !.thrown = Append(@, <<"ordered", outcome>>)]
    /\ UNCHANGED <<clock, commentThunks, commentForm, detail, postsState, commentsState, dbPosts, dbLikes, dbComments, user, toggles,
                   likedFetch, commentsFetch, page, thunks, form, edit, calls, hist>>

\* the query without the sort clause answers
fetchPostsRetry(outcome) ==
    /\ fetch.pc = "retry"
    /\ fetch' =
         IF outcome = "ok"
         THEN AfterSnapshot(fetch, getDocsWithoutOrder(fetch.authorFilter, fetch.tagFilter))
         ELSE [fetch EXCEPT !.pc = "rejected", !.message = outcome,
                            !.thrown = Append(@, <<"retry", outcome>>)]
    /\ UNCHANGED <<clock, commentThunks, commentForm, detail, postsState, commentsState, dbPosts, dbLikes, dbComments, user, toggles,
                   likedFetch, commentsFetch, page, thunks, form, edit, calls, hist>>

\* the query of the whole collection answers; its error is caught and logged
fetchPostsFallback(outcome) ==
    /\ fetch.pc = "fallback"
    /\ LET Hit(post) == PartialMatch(post, fetch.authorFilter, fetch.tagFilter)
           resultPosts ==
               IF outcome = "ok" THEN Filter(ToPosts(getDocsWithoutOrder(<<>>, <<>>)), Hit)
               ELSE fetch.resultPosts
       IN fetch' = [fetch EXCEPT
             !.pc = "fulfilled", !.path = "fallback",
             !.resultPosts = resultPosts,
             !.payload = SortPosts(resultPosts),
             !.thrown = IF outcome = "ok" THEN @ ELSE Append(@, <<"fallback", outcome>>)]
    /\ UNCHANGED <<clock, commentThunks, commentForm, detail, postsState, commentsState, dbPosts, dbLikes, dbComments, user, toggles,
                   likedFetch, commentsFetch, page, thunks, form, edit, calls, hist>>

\* the thunk settles: fetchPosts.fulfilled or fetchPosts.rejected
fetchPostsSettle ==
    /\ fetch.pc \in {"fulfilled", "rejected"}
    /\ postsState' =
         IF fetch.pc = "fulfilled" THEN fetchPostsFulfilled(postsState, fetch.payload)
         ELSE fetchPostsRejected(postsState, fetch.message)
    /\ fetch' = [fetch EXCEPT !.pc = IF @ = "fulfilled" THEN "done" ELSE "failed"]
    /\ UNCHANGED <<clock, commentThunks, commentForm, detail, commentsState, dbPosts, dbLikes, dbComments, user, toggles, likedFetch,
                   commentsFetch, page, thunks, form, edit, calls, hist>>

(***************************************************************************)
(* fetchComments (src/store/slices/commentsSlice.ts, lines 7-59).          *)
(***************************************************************************)
StoredComments ==
    LET Exists(id) == id \in DOMAIN dbComments
        ids == Filter(DocIds, Exists)
    IN [i \in DOMAIN ids |-> dbComments[ids[i]]]

\* getDocs(query(collection(db, 'comments'), where('postId', '==', postId)))
getCommentsWithoutOrder(postId) ==
    LET Hit(doc) == doc.postId = postId
    IN Filter(StoredComments, Hit)

\* the same query with orderBy('createdAt', 'desc')
getCommentsWithOrder(postId) ==
    LET Hit(doc) == doc.postId = postId /\ doc.createdAt.kind # "none"
    IN Sort(Filter(StoredComments, Hit), OrderByDesc)

\* dateB - dateA, with new Date(undefined).getTime() being NaN: a NaN result of the
\* comparator counts as 0
ByDateDesc(a, b) ==
    IF a.createdAt.kind = "none" \/ b.createdAt.kind = "none" THEN 0
    ELSE b.createdAt.ms - a.createdAt.ms

SortComments(fetchedComments) == Sort(fetchedComments, ByDateDesc)

fetchCommentsPending(state) == [state EXCEPT !.loading = TRUE, !.error = None]

\* state.commentsByPost[postId] = comments
fetchCommentsFulfilled(state, postId, comments) ==
    [state EXCEPT
        !.loading = FALSE,
        !.commentsByPost =
            [q \in DOMAIN @ \cup {postId} |-> IF q = postId THEN comments ELSE @[q]]]

fetchCommentsRejected(state, message) ==
    [state EXCEPT !.loading = FALSE, !.error = MessageOr(message, "Failed to fetch comments")]

\* CommentList's effect: dispatch(fetchComments(postId)); fetchComments.pending
fetchCommentsDispatch(postId) ==
    /\ page = "detail"
    /\ commentsFetch.pc = "idle"
    /\ commentsState' = fetchCommentsPending(commentsState)
    /\ commentsFetch' = [pc |-> "ordered", postId |-> postId, path |-> "ordered",
                         payload |-> <<>>, thrown |-> <<>>, message |-> None]
    /\ UNCHANGED <<clock, commentThunks, commentForm, detail, postsState, dbPosts, dbLikes, dbComments, user, toggles, likedFetch,
                   fetch, page, thunks, form, edit, calls, hist>>

fetchCommentsOrdered(outcome) ==
    /\ commentsFetch.pc = "ordered"
    /\ commentsFetch' =
         IF outcome = "ok"
         THEN [commentsFetch EXCEPT
                 !.pc = "fulfilled",
                 !.payload = SortComments(ToPosts(getCommentsWithOrder(commentsFetch.postId)))]
         ELSE IF IndexRequired(outcome)
         THEN [commentsFetch EXCEPT !.pc = "retry", !.path = "retry",
                                    !.thrown = Append(@, <<"ordered", outcome>>)]
         ELSE [commentsFetch EXCEPT !.pc = "rejected", !.message = outcome,
                                    !.thrown = Append(@, <<"ordered", outcome>>)]
    /\ UNCHANGED <<clock, commentThunks, commentForm, detail, postsState, commentsState, dbPosts, dbLikes, dbComments, user, toggles,
                   likedFetch, fetch, page, thunks, form, edit, calls, hist>>

fetchCommentsRetry(outcome) ==
    /\ commentsFetch.pc = "retry"
    /\ commentsFetch' =
         IF outcome = "ok"
         THEN [commentsFetch EXCEPT
                 !.pc = "fulfilled",
                 !.payload = SortComments(ToPosts(getCommentsWithoutOrder(commentsFetch.postId)))]
         ELSE [commentsFetch EXCEPT !.pc = "rejected", !.message = outcome,
                                    !.thrown = Append(@, <<"retry", outcome>>)]
    /\ UNCHANGED <<clock, commentThunks, commentForm, detail, postsState, commentsState, dbPosts, dbLikes, dbComments, user, toggles,
                   likedFetch, fetch, page, thunks, form, edit, calls, hist>>

fetchCommentsSettle ==
    /\ commentsFetch.pc \in {"fulfilled", "rejected"}
    /\ commentsState' =
         IF commentsFetch.pc = "fulfilled"
         THEN fetchCommentsFulfilled(commentsState, commentsFetch.postId, commentsFetch.payload)
         ELSE fetchCommentsRejected(commentsState, commentsFetch.message)
    /\ commentsFetch' = [commentsFetch EXCEPT !.pc = IF @ = "fulfilled" THEN "done" ELSE "failed"]
    /\ UNCHANGED <<clock, commentThunks, commentForm, detail, postsState, dbPosts, dbLikes, dbComments, user, toggles, likedFetch,
                   fetch, page, thunks, form, edit, calls, hist>>

(***************************************************************************)
(* The fetch pipelines over every content of the store.                    *)
(***************************************************************************)
sAnna == <<"A", "n", "n", "a">>
sann == <<"a", "n", "n">>
sBob == <<"B", "o", "b">>
sReact == <<"R", "e", "a", "c", "t">>
sredux == <<"r", "e", "d", "u", "x">>
sRx == <<"R", "x">>

AuthorFilters == {<<>>, sann, <<" ", "A", "N", " ">>}
TagFilters == {<<>>, <<"r", "e">>}

TimeChoices ==
    {Timestamp(ms, sub) : ms \in 1..MaxMs, sub \in {0, 1}}
        \cup {IsoString(ms) : ms \in 1..MaxMs} \cup {NoTime}

MkDoc(id, authorName, tags, createdAt) ==
    [id |-> id, likes |-> 0, authorId |-> "u0", authorName |-> authorName,
     title |-> [len |-> 5, pad |-> 0], content |-> [len |-> 10, pad |-> 0],
     tags |-> tags, createdAt |-> createdAt, updatedAt |-> createdAt]

MkComment(id, postId, createdAt) ==
    [id |-> id, postId |-> postId, content |-> [len |-> 5, pad |-> 0],
     authorId |-> "u0", authorName |-> sBob, createdAt |-> createdAt,
     updatedAt |-> createdAt]

\* The list page reads the posts and the detail page the comments; the collection the
\* page does not read is held fixed.
InitFetch ==
    /\ page \in {"list", "detail"}
    /\ \E t1, t2, t3 \in TimeChoices, name2 \in {sann, sBob} :
          /\ page = "detail" => t1 = NoTime /\ t2 = NoTime /\ t3 = NoTime /\ name2 = sBob
          /\ dbPosts = [id \in {"p1", "p2", "p3"} |->
                        CASE id = "p1" -> MkDoc("p1", sAnna, <<sReact>>, t1)
                          [] id = "p2" -> MkDoc("p2", name2, <<sredux, sRx>>, t2)
                          [] id = "p3" -> MkDoc("p3", sBob, <<sReact>>, t3)]
    /\ \E t, u \in TimeChoices :
          /\ page = "list" => t = NoTime /\ u = NoTime
          /\ dbComments = [id \in {"c1", "c2"} |->
                           IF id = "c1" THEN MkComment("c1", "p1", t)
                           ELSE MkComment("c2", "p1", u)]
    /\ dbLikes = {}
    /\ postsState = initialState
    /\ commentsState = initialComments
    /\ user = None
    /\ toggles = <<>>
    /\ likedFetch = <<>>
    /\ hist = HistInit
    /\ ViewInit

NextFetch ==
    \/ \E a \in AuthorFilters, t \in TagFilters : fetchPostsDispatch(a, t)
    \/ \E outcome \in {"ok"} \cup Errors : fetchPostsOrdered(outcome)
    \/ \E outcome \in {"ok"} \cup Errors : fetchPostsRetry(outcome)
    \/ \E outcome \in {"ok"} \cup Errors : fetchPostsFallback(outcome)
    \/ fetchPostsSettle
    \/ \E p \in {"p1", "p2"} : fetchCommentsDispatch(p)
    \/ \E outcome \in {"ok"} \cup Errors : fetchCommentsOrdered(outcome)
    \/ \E outcome \in {"ok"} \cup Errors : fetchCommentsRetry(outcome)
    \/ fetchCommentsSettle

SpecFetch == InitFetch /\ [][NextFetch]_vars

\* the fetchPosts thunk has a value to return, or has returned it
Returned(f) == f.pc \in {"fulfilled", "done"}

Rejected(f) == f.pc \in {"rejected", "failed"}

\* the time a returned post was created; a post without createdAt counts as time zero
CreatedAtMillis(post) == IF post.createdAt.kind = "none" THEN 0 ELSE post.createdAt.ms

NewestFirst(list) ==
    \A i, j \in DOMAIN list : i < j => CreatedAtMillis(list[i]) >= CreatedAtMillis(list[j])

(* C4: whatever the filters and whichever path was taken (ordered query, retry without
   the sort clause, unfiltered fallback), the list fetchPosts returns is ordered by
   createdAt, newest first. *)
C4_ReturnedNewestFirst == Returned(fetch) => NewestFirst(fetch.payload)

\* the fallback returned a list the final sort had to reorder
C4_Witness ==
    /\ Returned(fetch)
    /\ fetch.path = "fallback"
    /\ Len(fetch.payload) >= 2
    /\ fetch.payload # fetch.resultPosts

\* str starts with prefix, letter case aside
PrefixIgnoringCase(str, prefix) ==
    \E n \in 0..Len(str) : toLowerCase(SubSeq(str, 1, n)) = toLowerCase(prefix)

\* the posts of the whole collection that C5 names for the filters of the fetch
C5_Named ==
    LET a == trim(fetch.authorFilter)
        t == trim(fetch.tagFilter)
        Named(doc) ==
            /\ a # <<>> => PrefixIgnoringCase(doc.authorName, a)
            /\ t # <<>> => \E i \in DOMAIN doc.tags : PrefixIgnoringCase(doc.tags[i], t)
    IN {ToPost(dbPosts[id]) : id \in {d \in DOMAIN dbPosts : Named(dbPosts[d])}}

Elements(list) == {list[i] : i \in DOMAIN list}

\* the query of the whole collection threw
FallbackThrew(f) == \E k \in DOMAIN f.thrown : f.thrown[k][1] = "fallback"

(* C5, as claimed: when a filter is applied and the exact-match query returns no
   records, fetchPosts returns exactly the posts of the whole collection whose author
   name starts with the author filter and that have a tag starting with the tag
   filter, letter case aside. *)
C5_FallbackReturnsPrefixMatches ==
    (Returned(fetch) /\ fetch.path = "fallback") =>
        /\ Elements(fetch.payload) = C5_Named
        /\ Len(fetch.payload) = Cardinality(C5_Named)

(* C5, amended: the same, provided the query of the whole collection succeeds; when
   that query throws, fetchPosts returns the empty list. *)
C5_FallbackReturnsPrefixMatchesOrNothing ==
    (Returned(fetch) /\ fetch.path = "fallback") =>
        IF FallbackThrew(fetch) THEN fetch.payload = <<>>
        ELSE /\ Elements(fetch.payload) = C5_Named
             /\ Len(fetch.payload) = Cardinality(C5_Named)

\* the author filter 'ann' with no author named exactly 'ann' returns the post of 'Anna'
C5_Witness ==
    /\ Returned(fetch)
    /\ fetch.path = "fallback"
    /\ fetch.authorFilter = sann
    /\ \A id \in DOMAIN dbPosts : dbPosts[id].authorName # sann
    /\ \E i \in DOMAIN fetch.payload : fetch.payload[i].authorName = sAnna

\* an error other than an index-required error of the ordered query was thrown
OtherErrorThrown(f) ==
    \E k \in DOMAIN f.thrown :
        ~(f.thrown[k][1] = "ordered" /\ f.thrown[k][2] \in IndexRequiredErrors)

Started(f) == f.pc # "idle"

\* the retry runs only after an index-required error of the ordered query
RetryOnlyOnIndexError(f) ==
    (Started(f) /\ f.path = "retry") =>
        /\ Len(f.thrown) >= 1
        /\ f.thrown[1][1] = "ordered"
        /\ f.thrown[1][2] \in IndexRequiredErrors

(* C10, as claimed: in fetchPosts and fetchComments only an index-required error of the
   ordered query leads to the retry; any other error a store query of the pipeline
   raises makes the thunk reject, and the rejected cache has loading false and its
   error set. *)
C10_OtherErrorsReject ==
    /\ RetryOnlyOnIndexError(fetch)
    /\ RetryOnlyOnIndexError(commentsFetch)
    /\ (Started(fetch) /\ OtherErrorThrown(fetch)) => Rejected(fetch)
    /\ (Started(commentsFetch) /\ OtherErrorThrown(commentsFetch)) => Rejected(commentsFetch)
    /\ fetch.pc = "failed" => ~postsState.loading /\ postsState.error # None
    /\ commentsFetch.pc = "failed" => ~commentsState.loading /\ commentsState.error # None

(* C10, amended: the same for the errors of the ordered query and of the retry; an
   error of the unfiltered fallback query of fetchPosts is caught, and the thunk
   fulfils with the empty list. *)
C10_OtherErrorsRejectButFallback ==
    /\ RetryOnlyOnIndexError(fetch)
    /\ RetryOnlyOnIndexError(commentsFetch)
    /\ (Started(fetch) /\ OtherErrorThrown(fetch)) =>
          IF FallbackThrew(fetch) THEN Returned(fetch) /\ fetch.payload = <<>>
          ELSE Rejected(fetch)
    /\ (Started(commentsFetch) /\ OtherErrorThrown(commentsFetch)) => Rejected(commentsFetch)
    /\ fetch.pc = "failed" => ~postsState.loading /\ postsState.error # None
    /\ commentsFetch.pc = "failed" => ~commentsState.loading /\ commentsState.error # None

\* the retry after an index-required error was refused, and the posts cache shows it
C10_Witness ==
    /\ fetch.pc = "failed"
    /\ fetch.thrown = << <<"ordered", "index">>, <<"retry", "permission-denied">> >>
    /\ postsState.error = "permission-denied"
    /\ ~postsState.loading

(***************************************************************************)
(* Editing and deleting a post (PostList.tsx, lines 110-178) with the      *)
(* updatePost and deletePost thunks and their reducers.                    *)
(***************************************************************************)
MaxSubmits == 1      \* edit forms submitted in one run
MaxInFlight == 2     \* thunks of the view in flight at once

\* TagManager's default maxTags
maxTags == 10

\* the cached post with the given id
PostOf(p) == postsState.posts[FindIndex(postsState.posts, p)]

\* (editData.tags || []).map(t => (t ?? '').trim()).filter(t => t.length > 0)
CleanTags(tags) ==
    LET trimmed == [i \in DOMAIN tags |-> trim(tags[i])]
        Solid(t) == Len(t) > 0
    IN Filter(trimmed, Solid)

\* a merge that loses a field the updates do not name
MergeLosing(post, updates) ==
    [f \in DOMAIN post \cup DOMAIN updates |->
        IF f \in DOMAIN updates THEN updates[f]
        ELSE IF f = "authorName" THEN <<>> ELSE post[f]]

\* state.posts[postIndex] = { ...state.posts[postIndex], ...updates }
Merge(post, updates) ==
    [f \in DOMAIN post \cup DOMAIN updates |->
        IF f \in DOMAIN updates THEN updates[f] ELSE post[f]]

\* { ...updates, updatedAt: serverTimestamp() }
Stamped(updates) ==
    [f \in DOMAIN updates \cup {"updatedAt"} |->
        IF f = "updatedAt" THEN Timestamp(ServerNow, 0) ELSE updates[f]]

updatePostFulfilled(state, postId, updates) ==
    LET postIndex == FindIndex(state.posts, postId)
    IN IF postIndex # 0
       THEN [state EXCEPT !.posts[postIndex] = Merge(@, updates)]
       ELSE state

updatePostRejected(state, message) ==
    [state EXCEPT !.error = MessageOr(message, "Failed to update post")]

deletePostFulfilled(state, postId) ==
    LET KeepPost(q) == q.id # postId
        KeepId(id) == id # postId
    IN [state EXCEPT !.posts = Filter(@, KeepPost), !.likedPostIds = Filter(@, KeepId)]

deletePostRejected(state, message) ==
    [state EXCEPT !.error = MessageOr(message, "Failed to delete post")]

\* the comments slice on deletePost.fulfilled: its extraReducers have no case for it
commentsOnDeletePost(state, postId) == state

\* the step is not the settling of a deletePost
NoDelete == [hist EXCEPT !.deleted = <<>>]

\* the buttons of a post card shown to every signed-in user
ShowsAuthorButtonsToAnyUser(post) == user # None

\* {user && user.uid === post.authorId && (...)}: the card's Save, Cancel, Edit and
\* Delete buttons are rendered for the post's author only
ShowsAuthorButtons(post) == user # None /\ user = post.authorId

beginEditPost(p) ==
    /\ user # None
    /\ Cached(p)
    /\ PostOf(p).authorId = user
    /\ edit.editingPostId # p
    /\ edit' = [edit EXCEPT
          !.editingPostId = p,
          !.editData = [title |-> PostOf(p).title, content |-> PostOf(p).content,
                        tags |-> PostOf(p).tags, likes |-> PostOf(p).likes],
          !.editErrors = NoErrors]
    /\ hist' = NoDelete
    /\ UNCHANGED <<clock, commentThunks, commentForm, detail, postsState, commentsState, dbPosts, dbLikes, dbComments, user, toggles,
                   likedFetch, fetch, commentsFetch, page, thunks, form, calls>>

cancelEditPost ==
    /\ edit.editingPostId # None
    /\ edit' = [edit EXCEPT !.editingPostId = None, !.editErrors = NoErrors,
                            !.isEditing = FALSE]
    /\ hist' = NoDelete
    /\ UNCHANGED <<clock, commentThunks, commentForm, detail, postsState, commentsState, dbPosts, dbLikes, dbComments, user, toggles,
                   likedFetch, fetch, commentsFetch, page, thunks, form, calls>>

\* the onChange handlers of the edit form's four inputs
editTitleChange(value) ==
    /\ edit.editingPostId # None
    /\ edit' = [edit EXCEPT !.editData.title = value]
    /\ hist' = NoDelete
    /\ UNCHANGED <<clock, commentThunks, commentForm, detail, postsState, commentsState, dbPosts, dbLikes, dbComments, user, toggles,
                   likedFetch, fetch, commentsFetch, page, thunks, form, calls>>

editContentChange(value) ==
    /\ edit.editingPostId # None
    /\ edit' = [edit EXCEPT !.editData.content = value]
    /\ hist' = NoDelete
    /\ UNCHANGED <<clock, commentThunks, commentForm, detail, postsState, commentsState, dbPosts, dbLikes, dbComments, user, toggles,
                   likedFetch, fetch, commentsFetch, page, thunks, form, calls>>

\* e.target.value.split(',').map(t => t.trim()).filter(Boolean), on the pieces between
\* the commas
editTagsChange(pieces) ==
    /\ edit.editingPostId # None
    /\ edit' = [edit EXCEPT !.editData.tags = CleanTags(pieces)]
    /\ hist' = NoDelete
    /\ UNCHANGED <<clock, commentThunks, commentForm, detail, postsState, commentsState, dbPosts, dbLikes, dbComments, user, toggles,
                   likedFetch, fetch, commentsFetch, page, thunks, form, calls>>

\* likes: Number.isFinite(num) && num >= 0 ? num : 0
editLikesChange(num) ==
    /\ edit.editingPostId # None
    /\ edit' = [edit EXCEPT !.editData.likes = IF num >= 0 THEN num ELSE 0]
    /\ hist' = NoDelete
    /\ UNCHANGED <<clock, commentThunks, commentForm, detail, postsState, commentsState, dbPosts, dbLikes, dbComments, user, toggles,
                   likedFetch, fetch, commentsFetch, page, thunks, form, calls>>

\* PostList.submitEditPost up to its await: the three checks, then the thunk; the Save
\* button that calls it is one of the author's buttons of a listed post
submitEditPost(postId) ==
    /\ Cached(postId)
    /\ ShowsAuthorButtons(PostOf(postId))
    /\ user # None
    /\ edit.editingPostId = postId
    /\ ~edit.isEditing
    /\ hist.submits < MaxSubmits
    /\ Len(thunks) < MaxInFlight
    /\ LET editData == edit.editData
           cleanedTags == CleanTags(editData.tags)
           updates == [title |-> trimText(editData.title),
                       content |-> trimText(editData.content),
                       tags |-> cleanedTags,
                       likes |-> Max(0, editData.likes)]
       IN IF trimText(editData.title).len < 5
          THEN /\ edit' = [edit EXCEPT !.editErrors = [NoErrors EXCEPT !.title = "min5"],
                                       !.isEditing = FALSE]
               /\ thunks' = thunks
          ELSE IF trimText(editData.content).len < 10
          THEN /\ edit' = [edit EXCEPT !.editErrors = [NoErrors EXCEPT !.content = "min10"],
                                       !.isEditing = FALSE]
               /\ thunks' = thunks
          ELSE IF Len(cleanedTags) = 0
          THEN /\ edit' = [edit EXCEPT !.editErrors = [NoErrors EXCEPT !.tags = "min1"],
                                       !.isEditing = FALSE]
               /\ thunks' = thunks
          ELSE /\ edit' = [edit EXCEPT !.editErrors = NoErrors, !.isEditing = TRUE]
               /\ thunks' = Append(thunks,
                     [kind |-> "updatePost", postId |-> postId, updates |-> updates,
                      pc |-> "store", editingPostId |-> edit.editingPostId, error |-> None])
    /\ hist' = [hist EXCEPT !.submits = @ + 1, !.deleted = <<>>]
    /\ UNCHANGED <<clock, commentThunks, commentForm, detail, postsState, commentsState, dbPosts, dbLikes, dbComments, user, toggles,
                   likedFetch, fetch, commentsFetch, page, form, calls>>

\* updatePost: updateDoc(doc(db, 'posts', postId), { ...updates, updatedAt }), which
\* throws when the document does not exist
updatePostStore(i, ok) ==
    /\ i \in DOMAIN thunks
    /\ thunks[i].kind = "updatePost"
    /\ thunks[i].pc = "store"
    /\ LET t == thunks[i]
       IN IF ok /\ t.postId \in DOMAIN dbPosts
          THEN /\ dbPosts' = [dbPosts EXCEPT ![t.postId] = Merge(@, Stamped(t.updates))]
               /\ thunks' = [thunks EXCEPT ![i].pc = "fulfilled"]
          ELSE /\ dbPosts' = dbPosts
               /\ thunks' = [thunks EXCEPT ![i].pc = "rejected", ![i].error = Refused]
    /\ hist' = NoDelete
    /\ UNCHANGED <<clock, commentThunks, commentForm, detail, postsState, commentsState, dbLikes, dbComments, user, toggles,
                   likedFetch, fetch, commentsFetch, page, form, edit, calls>>

\* updatePost.fulfilled or .rejected, then the rest of submitEditPost: unwrap()
\* resolves (setEditingPostId(null)) or throws, and finally setIsEditing(false)
updatePostSettle(i) ==
    /\ i \in DOMAIN thunks
    /\ thunks[i].kind = "updatePost"
    /\ thunks[i].pc \in {"fulfilled", "rejected"}
    /\ LET t == thunks[i]
       IN IF t.pc = "fulfilled"
          THEN /\ postsState' = updatePostFulfilled(postsState, t.postId, t.updates)
               /\ edit' = [edit EXCEPT !.editingPostId = None, !.isEditing = FALSE]
          ELSE /\ postsState' = updatePostRejected(postsState, t.error)
               /\ edit' = [edit EXCEPT !.isEditing = FALSE]
    /\ thunks' = RemoveAt(thunks, i)
    /\ hist' = NoDelete
    /\ UNCHANGED <<clock, commentThunks, commentForm, detail, commentsState, dbPosts, dbLikes, dbComments, user, toggles,
                   likedFetch, fetch, commentsFetch, page, form, calls>>

\* PostList.handleDeletePost up to its await; the delete button of a post is shown
\* while the post is not being edited, and window.confirm has answered yes
handleDeletePost(p) ==
    /\ Cached(p)
    /\ ShowsAuthorButtons(PostOf(p))
    /\ user # None
    /\ PostOf(p).authorId = user
    /\ edit.editingPostId # p
    /\ Len(thunks) < MaxInFlight
    /\ thunks' = Append(thunks,
          [kind |-> "deletePost", postId |-> p, updates |-> editInitial.editData,
           pc |-> "store", editingPostId |-> edit.editingPostId, error |-> None])
    /\ hist' = NoDelete
    /\ UNCHANGED <<clock, commentThunks, commentForm, detail, postsState, commentsState, dbPosts, dbLikes, dbComments, user, toggles,
                   likedFetch, fetch, commentsFetch, page, form, edit, calls>>

\* deletePost: deleteDoc(doc(db, 'posts', postId))
deletePostStore(i, ok) ==
    /\ i \in DOMAIN thunks
    /\ thunks[i].kind = "deletePost"
    /\ thunks[i].pc = "store"
    /\ IF ok
       THEN /\ dbPosts' = [q \in DOMAIN dbPosts \ {thunks[i].postId} |-> dbPosts[q]]
            /\ thunks' = [thunks EXCEPT ![i].pc = "fulfilled"]
       ELSE /\ dbPosts' = dbPosts
            /\ thunks' = [thunks EXCEPT ![i].pc = "rejected", ![i].error = Refused]
    /\ hist' = NoDelete
    /\ UNCHANGED <<clock, commentThunks, commentForm, detail, postsState, commentsState, dbLikes, dbComments, user, toggles,
                   likedFetch, fetch, commentsFetch, page, form, edit, calls>>

\* deletePost.fulfilled or .rejected as the two slices reduce it, then the rest of
\* handleDeletePost: if (editingPostId === post.id) cancelEditPost(), with the
\* editingPostId the handler closed over
deletePostSettle(i) ==
    /\ i \in DOMAIN thunks
    /\ thunks[i].kind = "deletePost"
    /\ thunks[i].pc \in {"fulfilled", "rejected"}
    /\ LET t == thunks[i]
       IN IF t.pc = "fulfilled"
          THEN /\ postsState' = deletePostFulfilled(postsState, t.postId)
               /\ commentsState' = commentsOnDeletePost(commentsState, t.postId)
               /\ edit' = IF t.editingPostId = t.postId
                          THEN [edit EXCEPT !.editingPostId = None, !.editErrors = NoErrors,
                                            !.isEditing = FALSE]
                          ELSE edit
               /\ hist' = [hist EXCEPT !.deleted =
                             <<[postId |-> t.postId, posts |-> postsState.posts,
                                likedPostIds |-> postsState.likedPostIds,
                                commentsByPost |-> commentsState.commentsByPost]>>]
          ELSE /\ postsState' = deletePostRejected(postsState, t.error)
               /\ commentsState' = commentsState
               /\ edit' = edit
               /\ hist' = NoDelete
    /\ thunks' = RemoveAt(thunks, i)
    /\ UNCHANGED <<clock, commentThunks, commentForm, detail, dbPosts, dbLikes, dbComments, user, toggles,
                   likedFetch, fetch, commentsFetch, page, form, calls>>

(***************************************************************************)
(* The list page with the posts loaded and the author signed in: editing   *)
(* and deleting posts. The comment buckets are those of the detail pages   *)
(* visited before.                                                         *)
(***************************************************************************)
EditTitles == {Text(6, 2), Text(101, 0)}
EditContents == {Text(9, 0), Text(5001, 0)}
EditTagPieces == { << <<" ">>, <<>> >>, [i \in 1..(maxTags + 1) |-> sRx] }
EditLikes == {0 - 1, MaxLikes0 + 1}

InitList(authors) ==
    /\ \E l \in 0..MaxLikes0, a2 \in authors,
          liked \in {<<>>, <<"p2", "p1">>}, visited \in {{}, {"p1"}, PostIds} :
          /\ dbPosts = [p \in PostIds |->
                IF p = "p1"
                THEN [MkPost("p1", l) EXCEPT !.authorId = "u1", !.tags = <<sReact>>]
                ELSE [MkPost("p2", 0) EXCEPT !.authorId = a2, !.tags = <<sredux>>]]
          /\ postsState = [initialState EXCEPT
                !.posts = <<dbPosts["p1"], dbPosts["p2"]>>, !.likedPostIds = liked]
          /\ commentsState = [initialComments EXCEPT
                !.commentsByPost = [q \in visited |->
                    IF q = "p1" THEN <<MkComment("c1", "p1", IsoString(1))>> ELSE <<>>]]
          /\ hist = [HistInit EXCEPT !.expected = [p \in PostIds |-> dbPosts[p].likes]]
    /\ dbComments = [id \in {"c1"} |-> MkComment("c1", "p1", Timestamp(1, 0))]
    /\ dbLikes = {}
    /\ user = "u1"
    /\ toggles = <<>>
    /\ likedFetch = <<>>
    /\ page = "list"
    /\ ViewInit

\* the second post is another author's
InitEdit == InitList({"u0"})

NextEdit ==
    \/ \E p \in PostIds : beginEditPost(p)
    \/ cancelEditPost
    \/ \E value \in EditTitles : editTitleChange(value)
    \/ \E value \in EditContents : editContentChange(value)
    \/ \E pieces \in EditTagPieces : editTagsChange(pieces)
    \/ \E num \in EditLikes : editLikesChange(num)
    \/ \E p \in PostIds : submitEditPost(p)
    \/ \E i \in 1..MaxInFlight, ok \in BOOLEAN : updatePostStore(i, ok)
    \/ \E i \in 1..MaxInFlight : updatePostSettle(i)

SpecEdit == InitEdit /\ [][NextEdit]_vars

(***************************************************************************)
(* The same page with the posts deleted as well; the edit form is saved as *)
(* it was opened.                                                          *)
(***************************************************************************)
NextDelete ==
    \/ \E p \in PostIds : beginEditPost(p)
    \/ cancelEditPost
    \/ \E p \in PostIds : submitEditPost(p)
    \/ \E i \in 1..MaxInFlight, ok \in BOOLEAN : updatePostStore(i, ok)
    \/ \E i \in 1..MaxInFlight : updatePostSettle(i)
    \/ \E p \in PostIds : handleDeletePost(p)
    \/ \E i \in 1..MaxInFlight, ok \in BOOLEAN : deletePostStore(i, ok)
    \/ \E i \in 1..MaxInFlight : deletePostSettle(i)

\* the second post is the user's or another author's
InitDelete == InitList({"u1", "u0"})

SpecDelete == InitDelete /\ [][NextDelete]_vars

\* what hist.deleted recorded before the deletePost that has just settled
Before == hist.deleted[1]

Without(list, p) == LET Keep(x) == x # p IN Filter(list, Keep)

(* C3: in the state right after deletePost has fulfilled for post p, p is gone from
   state.posts, from likedPostIds and from commentsByPost, and every other post, liked
   id and comment bucket is as it was before. *)
C3_DeleteRemovesEverywhere ==
    hist.deleted # <<>> =>
        LET p == Before.postId
            OtherPost(q) == q.id # p
        IN /\ postsState.posts = Filter(Before.posts, OtherPost)
           /\ postsState.likedPostIds = Without(Before.likedPostIds, p)
           /\ p \notin DOMAIN commentsState.commentsByPost
           /\ \A q \in DOMAIN Before.commentsByPost \ {p} :
                 /\ q \in DOMAIN commentsState.commentsByPost
                 /\ commentsState.commentsByPost[q] = Before.commentsByPost[q]

\* the fields of a post as the specification bounds them
WithinBounds(updates) ==
    /\ updates.title.len >= 5 /\ updates.title.len <= 100
    /\ updates.content.len >= 10 /\ updates.content.len <= 5000
    /\ Len(updates.tags) >= 1 /\ Len(updates.tags) <= 10
    /\ \A i \in DOMAIN updates.tags : Len(trim(updates.tags[i])) > 0

(* C7: every createPost and updatePost the view has dispatched carries a title of
   5-100 characters, a content of 10-5000 characters and 1-10 non-empty tags. *)
C7_DispatchedWithinBounds ==
    \A i \in DOMAIN thunks :
        thunks[i].kind \in {"createPost", "updatePost"} => WithinBounds(thunks[i].updates)

(* C8: the likes counter of a post, in the store and in the cache, is changed only by
   the like protocol: while no toggle has been issued, the counters in the store and
   in the cache are the ones the posts were loaded with, whatever updatePost the view
   has dispatched. *)
C8_LikesOnlyByLikeProtocol ==
    hist.issued = 0 =>
        /\ \A p \in DOMAIN dbPosts : dbPosts[p].likes = hist.expected[p]
        /\ \A i \in DOMAIN postsState.posts :
              postsState.posts[i].likes = hist.expected[postsState.posts[i].id]

(***************************************************************************)
(* The create-post form: PostForm (src/unnamed/part_003) with TagManager   *)
(* (in src/app/components/AuthModal.tsx) and the createPost thunk.         *)
(***************************************************************************)
MaxTagEdits == 2     \* uses of TagManager's buttons and inputs in one run

\* postSchema with the title's min(5) left out
postSchemaWithoutMin5(data) ==
    [title |-> IF data.title.len < 1 THEN "required"
               ELSE IF data.title.len > 100 THEN "max100" ELSE None,
     content |-> IF data.content.len < 1 THEN "required"
                 ELSE IF data.content.len < 10 THEN "min10"
                 ELSE IF data.content.len > 5000 THEN "max5000" ELSE None,
     tags |-> IF Len(data.tags) < 1 THEN "min1"
              ELSE IF Len(data.tags) > 10 THEN "max10"
              ELSE IF \E i \in DOMAIN data.tags : Len(trim(data.tags[i])) = 0 THEN "blank"
              ELSE None]

\* postSchema.safeParse(data).error.flatten().fieldErrors, the first message of each
\* field; NoErrors when the parse succeeds
postSchema(data) ==
    [title |-> IF data.title.len < 1 THEN "required"
               ELSE IF data.title.len < 5 THEN "min5"
               ELSE IF data.title.len > 100 THEN "max100" ELSE None,
     content |-> IF data.content.len < 1 THEN "required"
                 ELSE IF data.content.len < 10 THEN "min10"
                 ELSE IF data.content.len > 5000 THEN "max5000" ELSE None,
     tags |-> IF Len(data.tags) < 1 THEN "min1"
              ELSE IF Len(data.tags) > 10 THEN "max10"
              ELSE IF \E i \in DOMAIN data.tags : Len(trim(data.tags[i])) = 0 THEN "blank"
              ELSE None]

\* the step is not onSubmit coming back from the token refresh
Quiet == [hist EXCEPT !.outcome = None]

\* the onChange handlers of the title input and of the content textarea
titleChange(value) ==
    /\ form.showPostForm
    /\ form' = [form EXCEPT !.formData.title = value]
    /\ hist' = Quiet
    /\ UNCHANGED <<clock, commentThunks, commentForm, detail, postsState, commentsState, dbPosts, dbLikes, dbComments, user, toggles,
                   likedFetch, fetch, commentsFetch, page, thunks, edit, calls>>

contentChange(value) ==
    /\ form.showPostForm
    /\ form.pc = "idle"
    /\ form' = [form EXCEPT !.formData.content = value]
    /\ hist' = Quiet
    /\ UNCHANGED <<clock, commentThunks, commentForm, detail, postsState, commentsState, dbPosts, dbLikes, dbComments, user, toggles,
                   likedFetch, fetch, commentsFetch, page, thunks, edit, calls>>

\* TagManager.addTag: the button is there while tags.length < maxTags
addTag ==
    /\ form.showPostForm
    /\ form.pc = "idle"
    /\ hist.tagEdits < MaxTagEdits
    /\ Len(form.formData.tags) < maxTags
    /\ form' = [form EXCEPT !.formData.tags = Append(@, <<>>)]
    /\ hist' = [hist EXCEPT !.tagEdits = @ + 1, !.outcome = None]
    /\ UNCHANGED <<clock, commentThunks, commentForm, detail, postsState, commentsState, dbPosts, dbLikes, dbComments, user, toggles,
                   likedFetch, fetch, commentsFetch, page, thunks, edit, calls>>

\* TagManager.removeTag
removeTag(index) ==
    /\ form.showPostForm
    /\ form.pc = "idle"
    /\ hist.tagEdits < MaxTagEdits
    /\ index \in DOMAIN form.formData.tags
    /\ form' = [form EXCEPT !.formData.tags = RemoveAt(@, index)]
    /\ hist' = [hist EXCEPT !.tagEdits = @ + 1, !.outcome = None]
    /\ UNCHANGED <<clock, commentThunks, commentForm, detail, postsState, commentsState, dbPosts, dbLikes, dbComments, user, toggles,
                   likedFetch, fetch, commentsFetch, page, thunks, edit, calls>>

\* TagManager.updateTag
updateTag(index, value) ==
    /\ form.showPostForm
    /\ form.pc = "idle"
    /\ hist.tagEdits < MaxTagEdits
    /\ index \in DOMAIN form.formData.tags
    /\ form' = [form EXCEPT !.formData.tags[index] = value]
    /\ hist' = [hist EXCEPT !.tagEdits = @ + 1, !.outcome = None]
    /\ UNCHANGED <<clock, commentThunks, commentForm, detail, postsState, commentsState, dbPosts, dbLikes, dbComments, user, toggles,
                   likedFetch, fetch, commentsFetch, page, thunks, edit, calls>>

\* the clear button
clearForm ==
    /\ form.showPostForm
    /\ form' = [form EXCEPT !.formData = formInitial.formData, !.fieldErrors = NoErrors]
    /\ hist' = Quiet
    /\ UNCHANGED <<clock, commentThunks, commentForm, detail, postsState, commentsState, dbPosts, dbLikes, dbComments, user, toggles,
                   likedFetch, fetch, commentsFetch, page, thunks, edit, calls>>

\* the 5-second interval of the mounted form: setIsOnline(getConnectionStatus())
checkConnection(online) ==
    /\ form.showPostForm
    /\ form' = [form EXCEPT !.isOnline = online]
    /\ hist' = Quiet
    /\ UNCHANGED <<clock, commentThunks, commentForm, detail, postsState, commentsState, dbPosts, dbLikes, dbComments, user, toggles,
                   likedFetch, fetch, commentsFetch, page, thunks, edit, calls>>

\* the ids addDoc and doc(collection) generate
NewDocIds == <<"p3", "p4", "p5", "p6">>

NewDocId ==
    LET Free(id) == id \notin DOMAIN dbPosts /\ ~Cached(id)
    IN Filter(NewDocIds, Free)[1]

createPostPending(state) == [state EXCEPT !.loading = TRUE, !.error = None]

\* state.posts.unshift(action.payload)
createPostFulfilled(state, post) == [state EXCEPT !.loading = FALSE, !.posts = <<post>> \o @]

\* a rejected handler of createPost that also drops the cached posts
createPostRejectedClearing(state, message) ==
    [state EXCEPT !.loading = FALSE, !.posts = <<>>,
                  !.error = MessageOr(message, "Failed to create post")]

createPostRejected(state, message) ==
    [state EXCEPT !.loading = FALSE, !.error = MessageOr(message, "Failed to create post")]

\* PostForm.onSubmit up to its first await, user.getIdToken(true); the submit button is
\* enabled while the form is online and not submitting, and one onSubmit runs at a time
onSubmit ==
    /\ user # None
    /\ form.showPostForm
    /\ form.pc = "idle"
    /\ form.isOnline
    /\ ~form.isSubmitting
    /\ hist.submits < MaxSubmits
    /\ form' = [form EXCEPT !.pc = "token", !.snapshot = form.formData, !.mounted = TRUE]
    /\ calls' = <<"getIdToken">>
    /\ hist' = [hist EXCEPT !.submits = @ + 1, !.outcome = None]
    /\ UNCHANGED <<clock, commentThunks, commentForm, detail, postsState, commentsState, dbPosts, dbLikes, dbComments, user, toggles,
                   likedFetch, fetch, commentsFetch, page, thunks, edit>>

\* onSubmit from the token refresh to its return or to the await of the dispatched
\* createPost, with the formData the handler closed over; createPost runs up to addDoc
onSubmitToken(ok) ==
    /\ form.pc = "token"
    /\ LET dataToValidate == form.snapshot
           errors == postSchema(dataToValidate)
           Solid(tag) == trim(tag) # <<>>
           cleanedTags == Filter(dataToValidate.tags, Solid)
           postData == [title |-> dataToValidate.title, content |-> dataToValidate.content,
                        tags |-> cleanedTags, likes |-> 0]
           \* a state update of a PostForm that is no longer mounted does nothing
           SetState(f) == IF form.mounted THEN f ELSE form
       IN IF ~ok
          THEN /\ form' = [SetState([form EXCEPT !.submitMessage = "auth"])
                             EXCEPT !.pc = "idle"]
               /\ hist' = [hist EXCEPT !.outcome = "token"]
               /\ UNCHANGED <<thunks, postsState, calls>>
          ELSE IF errors # NoErrors
          THEN /\ form' = [SetState([form EXCEPT !.submitMessage = None,
                                                  !.fieldErrors = errors,
                                                  !.isSubmitting = FALSE])
                             EXCEPT !.pc = "idle"]
               /\ hist' = [hist EXCEPT !.outcome = "invalid"]
               /\ UNCHANGED <<thunks, postsState, calls>>
          ELSE IF Len(cleanedTags) = 0
          THEN /\ form' = [SetState([form EXCEPT !.submitMessage = None,
                                                  !.fieldErrors = [NoErrors EXCEPT !.tags = "min1"],
                                                  !.isSubmitting = FALSE])
                             EXCEPT !.pc = "idle"]
               /\ hist' = [hist EXCEPT !.outcome = "invalid"]
               /\ UNCHANGED <<thunks, postsState, calls>>
          ELSE /\ form' = [SetState([form EXCEPT !.submitMessage = None,
                                                  !.fieldErrors = NoErrors,
                                                  !.isSubmitting = TRUE])
                             EXCEPT !.pc = "creating"]
               /\ thunks' = Append(thunks,
                     [kind |-> "createPost", postId |-> None, updates |-> postData,
                      pc |-> "addDoc", editingPostId |-> None, error |-> None,
                      primaryError |-> None, alternativeError |-> None])
               /\ postsState' = createPostPending(postsState)
               /\ calls' = Append(calls, "addDoc")
               /\ hist' = [hist EXCEPT !.outcome = "dispatched"]
    /\ UNCHANGED <<clock, commentThunks, commentForm, detail, commentsState, dbPosts, dbLikes, dbComments, user, toggles,
                   likedFetch, fetch, commentsFetch, page, edit>>

\* the document createPost writes for the thunk's postData
NewDoc(id, postData, createdAt) ==
    [id |-> id, likes |-> 0, authorId |-> user, authorName |-> sAnna,
     title |-> postData.title, content |-> postData.content, tags |-> postData.tags,
     createdAt |-> createdAt, updatedAt |-> createdAt]

\* the messages of the errors a store write throws
WriteErrors == {"permission-denied", "unavailable"}

\* new Error('Operation timed out after 30 seconds')
TimedOut == "Operation timed out after 30 seconds"

\* what the race of addDoc against the 30-second timeout comes to: the document
\* reference, addDoc's error, or the timeout's error with addDoc still running and
\* its document written ("late") or not ("timeout")
PrimaryOutcomes == {"ok", "late", "timeout"} \cup WriteErrors

FallbackOutcomes == {"ok"} \cup WriteErrors

PrimaryError(outcome) == IF outcome \in {"late", "timeout"} THEN TimedOut ELSE outcome

\* the inner catch throwing the alternative error
RethrownAlternative(primaryError, alternativeError) == alternativeError

\* catch (alternativeError) { throw primaryError; }
Rethrown(primaryError, alternativeError) == primaryError

\* the posts collection with the document written under the id
WithDoc(id, document) ==
    [q \in DOMAIN dbPosts \cup {id} |-> IF q = id THEN document ELSE dbPosts[q]]

\* createPost: addDoc answers, or loses the race against the timeout; on a failure the
\* thunk keeps primaryError and goes on to setDoc
createPostPrimary(i, outcome) ==
    /\ i \in DOMAIN thunks
    /\ thunks[i].kind = "createPost"
    /\ thunks[i].pc = "addDoc"
    /\ dbPosts' = IF outcome \in {"ok", "late"}
                  THEN WithDoc(NewDocId,
                               NewDoc(NewDocId, thunks[i].updates, Timestamp(ServerNow, 0)))
                  ELSE dbPosts
    /\ IF outcome = "ok"
       THEN /\ thunks' = [thunks EXCEPT ![i].pc = "fulfilled", ![i].postId = NewDocId]
            /\ calls' = calls
            /\ hist' = Quiet
       ELSE /\ thunks' = [thunks EXCEPT ![i].pc = "setDoc",
                                        ![i].primaryError = PrimaryError(outcome)]
            /\ calls' = Append(calls, "setDoc")
            /\ hist' = Quiet
    /\ UNCHANGED <<clock, commentThunks, commentForm, detail, postsState, commentsState, dbLikes, dbComments, user, toggles,
                   likedFetch, fetch, commentsFetch, page, form, edit>>

\* createPost: setDoc(alternativeDocRef, alternativePostData) answers; when it throws,
\* the thunk throws primaryError
createPostFallback(i, outcome) ==
    /\ i \in DOMAIN thunks
    /\ thunks[i].kind = "createPost"
    /\ thunks[i].pc = "setDoc"
    /\ IF outcome = "ok"
       THEN /\ dbPosts' = WithDoc(NewDocId,
                                  NewDoc(NewDocId, thunks[i].updates, IsoString(Now)))
            /\ thunks' = [thunks EXCEPT ![i].pc = "fulfilled", ![i].postId = NewDocId]
            /\ hist' = Quiet
       ELSE /\ dbPosts' = dbPosts
            /\ thunks' = [thunks EXCEPT
                  ![i].pc = "rejected",
                  ![i].alternativeError = outcome,
                  ![i].error = Rethrown(thunks[i].primaryError, outcome)]
            /\ hist' = Quiet
    /\ UNCHANGED <<clock, commentThunks, commentForm, detail, postsState, commentsState, dbLikes, dbComments, user, toggles,
                   likedFetch, fetch, commentsFetch, page, form, edit, calls>>

\* createPost.fulfilled or .rejected, then the rest of onSubmit: the awaited dispatch
\* resolves either way, the success message is set, the form is reset and the onSuccess
\* timeout is started
createPostSettle(i) ==
    /\ i \in DOMAIN thunks
    /\ thunks[i].kind = "createPost"
    /\ thunks[i].pc \in {"fulfilled", "rejected"}
    /\ LET t == thunks[i]
       IN postsState' =
            IF t.pc = "fulfilled"
            THEN createPostFulfilled(postsState,
                                     NewDoc(t.postId, t.updates, IsoString(Now)))
            ELSE createPostRejected(postsState, t.error)
    /\ LET done == IF form.mounted
                   THEN [form EXCEPT !.submitMessage = "created",
                                     !.formData = formInitial.formData,
                                     !.fieldErrors = NoErrors, !.isSubmitting = FALSE]
                   ELSE form
       IN form' = [done EXCEPT !.pc = "idle", !.timers = @ + 1]
    /\ thunks' = RemoveAt(thunks, i)
    /\ hist' = Quiet
    /\ UNCHANGED <<clock, commentThunks, commentForm, detail, commentsState, dbPosts, dbLikes, dbComments, user, toggles,
                   likedFetch, fetch, commentsFetch, page, edit, calls>>

\* the PostForm is unmounted: its state is gone, a running onSubmit goes on
Unmounted(f) ==
    [formInitial EXCEPT !.pc = f.pc, !.snapshot = f.snapshot, !.timers = f.timers]

\* PostList's button: setShowPostForm(!showPostForm); a form shown again is a new one
setShowPostForm ==
    /\ user # None
    /\ form' = IF form.showPostForm THEN Unmounted(form)
               ELSE [form EXCEPT !.showPostForm = TRUE]
    /\ hist' = Quiet
    /\ UNCHANGED <<clock, commentThunks, commentForm, detail, postsState, commentsState, dbPosts, dbLikes, dbComments, user, toggles,
                   likedFetch, fetch, commentsFetch, page, thunks, edit, calls>>

\* the onSuccess timeout fires: PostList.handlePostCreated, setShowPostForm(false)
handlePostCreated ==
    /\ form.timers > 0
    /\ form' = [Unmounted(form) EXCEPT !.timers = @ - 1]
    /\ hist' = Quiet
    /\ UNCHANGED <<clock, commentThunks, commentForm, detail, postsState, commentsState, dbPosts, dbLikes, dbComments, user, toggles,
                   likedFetch, fetch, commentsFetch, page, thunks, edit, calls>>

(***************************************************************************)
(* The list page with the create form shown.                               *)
(***************************************************************************)
Titles == {Text(4, 0), Text(5, 0), Text(101, 0)}
Contents == {Text(10, 0)}
TagValues == {<<" ">>, sRx}

InitForm ==
    /\ form \in {[formInitial EXCEPT !.showPostForm = TRUE, !.formData.tags = tags] :
                    tags \in {<<>>, [i \in 1..(maxTags - 1) |-> sRx]}}
    /\ dbPosts = [p \in PostIds |-> MkPost(p, 0)]
    /\ postsState = [initialState EXCEPT !.posts = <<dbPosts["p1"], dbPosts["p2"]>>]
    /\ commentsState = initialComments
    /\ dbComments = <<>>
    /\ dbLikes = {}
    /\ user = "u1"
    /\ toggles = <<>>
    /\ likedFetch = <<>>
    /\ page = "list"
    /\ hist = HistInit
    /\ edit = editInitial
    /\ thunks = <<>>
    /\ fetch = [pc |-> "idle"]
    /\ commentsFetch = [pc |-> "idle"]
    /\ calls = <<>>
    /\ clock = MaxMs
    /\ commentThunks = <<>>
    /\ commentForm = commentFormInitial
    /\ detail = detailInitial

NextForm ==
    \/ \E value \in Titles : titleChange(value)
    \/ \E value \in Contents : contentChange(value)
    \/ addTag
    \/ \E index \in {1, Len(form.formData.tags)} : removeTag(index)
    \/ \E index \in {1, Len(form.formData.tags)}, value \in TagValues : updateTag(index, value)
    \/ clearForm
    \/ \E online \in BOOLEAN : checkConnection(online)
    \/ setShowPostForm
    \/ handlePostCreated
    \/ onSubmit
    \/ \E ok \in BOOLEAN : onSubmitToken(ok)
    \/ \E i \in 1..MaxInFlight, outcome \in PrimaryOutcomes : createPostPrimary(i, outcome)
    \/ \E i \in 1..MaxInFlight, outcome \in FallbackOutcomes : createPostFallback(i, outcome)
    \/ \E i \in 1..MaxInFlight : createPostSettle(i)

SpecForm == InitForm /\ [][NextForm]_vars

\* onSubmit is handling form.snapshot, or has just returned from handling it
Handling == form.pc # "idle" \/ hist.outcome # None

ContentWithinBounds(data) == data.content.len >= 10 /\ data.content.len <= 5000

TitleWithinBounds(data) == data.title.len >= 5 /\ data.title.len <= 100

TagsWithinBounds(data) ==
    /\ Len(data.tags) >= 1 /\ Len(data.tags) <= 10
    /\ \A i \in DOMAIN data.tags : Len(trim(data.tags[i])) > 0

\* the submitted form has a title of 4 characters and nothing else wrong
TitleOfFour ==
    /\ Handling
    /\ form.snapshot.title.len = 4
    /\ ContentWithinBounds(form.snapshot)
    /\ TagsWithinBounds(form.snapshot)

\* the submitted form has 11 tags and nothing else wrong
ElevenTags ==
    /\ Handling
    /\ Len(form.snapshot.tags) = 11
    /\ \A i \in DOMAIN form.snapshot.tags : Len(trim(form.snapshot.tags[i])) > 0
    /\ TitleWithinBounds(form.snapshot)
    /\ ContentWithinBounds(form.snapshot)

OnlyTitleError == [NoErrors EXCEPT !.title = "min5"]

OnlyTagsError == [NoErrors EXCEPT !.tags = "max10"]

(* C6, as claimed: a create form submitted with a title of 4 characters, or with 11
   tags, is rejected before the submit handler makes any network call, and the field
   error is set on that field only. *)
C6_RejectedBeforeAnyNetworkCall ==
    /\ TitleOfFour =>
          /\ calls = <<>>
          /\ form.pc # "creating"
          /\ hist.outcome # None =>
                hist.outcome = "invalid" /\ form.fieldErrors = OnlyTitleError
    /\ ElevenTags =>
          /\ calls = <<>>
          /\ form.pc # "creating"
          /\ hist.outcome # None =>
                hist.outcome = "invalid" /\ form.fieldErrors = OnlyTagsError

(* C6, amended: the handler's one network call before the validation is the refresh of
   the user's token. A form submitted with a title of 4 characters is rejected with no
   store call and no createPost: when the refresh fails, with the authentication
   message and no field error set; otherwise with the field error on the title only
   (the messages are set on the form while it is still the one shown).
   The form never holds more than maxTags tags, and postSchema answers 11 tags with an
   error on the tags only. *)
C6_RejectedBeforeAnyStoreCall ==
    /\ TitleOfFour =>
          /\ calls = <<"getIdToken">>
          /\ thunks = <<>>
          /\ form.pc \in {"token", "idle"}
          /\ hist.outcome \in {None, "token", "invalid"}
          /\ (hist.outcome = "invalid" /\ form.mounted) =>
                form.fieldErrors = OnlyTitleError
          /\ (hist.outcome = "token" /\ form.mounted) => form.submitMessage = "auth"
    /\ Len(form.formData.tags) <= maxTags
    /\ Len(form.snapshot.tags) <= maxTags
    /\ postSchema([title |-> Text(5, 0), content |-> Text(10, 0),
                   tags |-> [i \in 1..(maxTags + 1) |-> sRx]]) = OnlyTagsError

\* the title of 4 characters has been refused after the token was refreshed
C6_Witness ==
    /\ hist.outcome = "invalid"
    /\ form.snapshot.title.len = 4
    /\ form.fieldErrors = OnlyTitleError
    /\ calls = <<"getIdToken">>
    /\ thunks = <<>>

(***************************************************************************)
(* Comments: CommentForm (src/app/components/CommentForm.tsx) and the      *)
(* createComment, updateComment and deleteComment thunks with their        *)
(* reducers (src/store/slices/commentsSlice.ts).                           *)
(***************************************************************************)
createCommentPending(state) == [state EXCEPT !.loading = TRUE, !.error = None]

\* state.commentsByPost[postId].unshift(comment), on a bucket made empty when missing
createCommentFulfilled(state, comment) ==
    LET buckets == state.commentsByPost
        postId == comment.postId
        bucket == IF postId \in DOMAIN buckets THEN buckets[postId] ELSE <<>>
    IN [state EXCEPT
          !.loading = FALSE,
          !.commentsByPost = [q \in DOMAIN buckets \cup {postId} |->
                                 IF q = postId THEN <<comment>> \o bucket ELSE buckets[q]]]

createCommentRejected(state, message) ==
    [state EXCEPT !.loading = FALSE, !.error = MessageOr(message, "Failed to create comment")]

\* in every bucket, the comment found by id becomes { ...comment, ...updates }
updateCommentFulfilled(state, commentId, updates) ==
    LET buckets == state.commentsByPost
        Updated(bucket) ==
            LET commentIndex == FindIndex(bucket, commentId)
            IN IF commentIndex # 0
               THEN [bucket EXCEPT ![commentIndex] = Merge(@, updates)]
               ELSE bucket
    IN [state EXCEPT !.commentsByPost = [q \in DOMAIN buckets |-> Updated(buckets[q])]]

updateCommentRejected(state, message) ==
    [state EXCEPT !.error = MessageOr(message, "Failed to update comment")]

\* in every bucket, filter(c => c.id !== commentId)
deleteCommentFulfilled(state, commentId) ==
    LET buckets == state.commentsByPost
        Keep(c) == c.id # commentId
    IN [state EXCEPT !.commentsByPost = [q \in DOMAIN buckets |-> Filter(buckets[q], Keep)]]

deleteCommentRejected(state, message) ==
    [state EXCEPT !.error = MessageOr(message, "Failed to delete comment")]

\* the schema without its upper bound
commentSchemaWithoutMax(data) ==
    IF data.content.len < 1 THEN "required"
    ELSE IF data.content.len < 5 THEN "min5" ELSE None

\* commentSchema.safeParse(formData): the first message for content, None when it parses
commentSchema(data) ==
    IF data.content.len < 1 THEN "required"
    ELSE IF data.content.len < 5 THEN "min5"
    ELSE IF data.content.len > 1000 THEN "max1000" ELSE None

\* the textarea's onChange; the form is rendered for a signed-in user
commentChange(value) ==
    /\ page = "detail"
    /\ user # None
    /\ commentForm' = [commentForm EXCEPT !.formData.content = value]
    /\ UNCHANGED <<postsState, commentsState, dbPosts, dbLikes, dbComments, user, toggles,
                   likedFetch, fetch, commentsFetch, page, thunks, form, edit, calls, clock,
                   commentThunks, detail, hist>>

\* the ids addDoc and doc(collection) generate for comments
NewCommentIds == <<"c3", "c4", "c5", "c6">>

NewCommentId ==
    LET Free(id) ==
            /\ id \notin DOMAIN dbComments
            /\ \A q \in DOMAIN commentsState.commentsByPost :
                  FindIndex(commentsState.commentsByPost[q], id) = 0
    IN Filter(NewCommentIds, Free)[1]

\* the document createComment writes, and the Comment it returns, for commentData
NewComment(id, commentData, createdAt) ==
    [id |-> id, postId |-> commentData.postId, content |-> commentData.content,
     authorId |-> commentData.authorId, authorName |-> commentData.authorName,
     createdAt |-> createdAt, updatedAt |-> createdAt]

\* the comments collection with the document written under the id
WithComment(id, document) ==
    [q \in DOMAIN dbComments \cup {id} |-> IF q = id THEN document ELSE dbComments[q]]

\* CommentForm.onSubmit up to its await: the schema, then the createComment thunk up to
\* addDoc; the submit button is enabled while the form is not submitting
commentSubmit ==
    /\ page = "detail"
    /\ user # None
    /\ ~commentForm.isSubmitting
    /\ hist.submits < MaxSubmits
    /\ Len(commentThunks) < MaxInFlight
    /\ LET error == commentSchema(commentForm.formData)
           commentData == [content |-> commentForm.formData.content,
                           postId |-> detail.postId,
                           authorId |-> user, authorName |-> sAnna]
       IN IF error # None
          THEN /\ commentForm' = [commentForm EXCEPT !.submitMessage = None,
                                                     !.fieldErrors = [content |-> error],
                                                     !.isSubmitting = FALSE]
               /\ UNCHANGED <<commentThunks, commentsState>>
          ELSE /\ commentForm' = [commentForm EXCEPT !.submitMessage = None,
                                                     !.fieldErrors = [content |-> None],
                                                     !.isSubmitting = TRUE]
               /\ commentThunks' = Append(commentThunks,
                     [kind |-> "createComment", commentId |-> None, updates |-> commentData,
                      pc |-> "addDoc", error |-> None,
                      primaryError |-> None, alternativeError |-> None])
               /\ commentsState' = createCommentPending(commentsState)
    /\ hist' = [hist EXCEPT !.submits = @ + 1]
    /\ UNCHANGED <<postsState, dbPosts, dbLikes, dbComments, user, toggles,
                   likedFetch, fetch, commentsFetch, page, thunks, form, edit, calls, clock,
                   detail>>

\* createComment: addDoc answers, or loses the race against the timeout; on a failure
\* the thunk keeps primaryError and goes on to setDoc
createCommentPrimary(i, outcome) ==
    /\ i \in DOMAIN commentThunks
    /\ commentThunks[i].kind = "createComment"
    /\ commentThunks[i].pc = "addDoc"
    /\ dbComments' =
         IF outcome \in {"ok", "late"}
         THEN WithComment(NewCommentId,
                  NewComment(NewCommentId, commentThunks[i].updates, Timestamp(ServerNow, 0)))
         ELSE dbComments
    /\ commentThunks' =
         IF outcome = "ok"
         THEN [commentThunks EXCEPT ![i].pc = "fulfilled", ![i].commentId = NewCommentId]
         ELSE [commentThunks EXCEPT ![i].pc = "setDoc",
                                    ![i].primaryError = PrimaryError(outcome)]
    /\ UNCHANGED <<postsState, commentsState, dbPosts, dbLikes, user, toggles,
                   likedFetch, fetch, commentsFetch, page, thunks, form, edit, calls, clock,
                   commentForm, detail, hist>>

\* createComment: setDoc(alternativeDocRef, alternativeCommentData) answers; when it
\* throws, the thunk throws primaryError
createCommentFallback(i, outcome) ==
    /\ i \in DOMAIN commentThunks
    /\ commentThunks[i].kind = "createComment"
    /\ commentThunks[i].pc = "setDoc"
    /\ IF outcome = "ok"
       THEN /\ dbComments' = WithComment(NewCommentId,
                  NewComment(NewCommentId, commentThunks[i].updates, IsoString(Now)))
            /\ commentThunks' = [commentThunks EXCEPT ![i].pc = "fulfilled",
                                                      ![i].commentId = NewCommentId]
       ELSE /\ dbComments' = dbComments
            /\ commentThunks' = [commentThunks EXCEPT
                  ![i].pc = "rejected",
                  ![i].alternativeError = outcome,
                  ![i].error = Rethrown(commentThunks[i].primaryError, outcome)]
    /\ UNCHANGED <<postsState, commentsState, dbPosts, dbLikes, user, toggles,
                   likedFetch, fetch, commentsFetch, page, thunks, form, edit, calls, clock,
                   commentForm, detail, hist>>

\* createComment.fulfilled or .rejected, then the rest of onSubmit: the awaited dispatch
\* resolves either way, the success message is set and the form is reset; the onSuccess
\* timeout runs PostDetail.handleCommentCreated, which changes nothing
createCommentSettle(i) ==
    /\ i \in DOMAIN commentThunks
    /\ commentThunks[i].kind = "createComment"
    /\ commentThunks[i].pc \in {"fulfilled", "rejected"}
    /\ LET t == commentThunks[i]
       IN commentsState' =
            IF t.pc = "fulfilled"
            THEN createCommentFulfilled(commentsState,
                                        NewComment(t.commentId, t.updates, IsoString(Now)))
            ELSE createCommentRejected(commentsState, t.error)
    /\ commentForm' = [commentForm EXCEPT !.submitMessage = "created",
                                          !.formData = commentFormInitial.formData,
                                          !.fieldErrors = [content |-> None],
                                          !.isSubmitting = FALSE]
    /\ commentThunks' = RemoveAt(commentThunks, i)
    /\ UNCHANGED <<postsState, dbPosts, dbLikes, dbComments, user, toggles,
                   likedFetch, fetch, commentsFetch, page, thunks, form, edit, calls, clock,
                   detail, hist>>

MaxCommentOps == 1   \* updateComment and deleteComment thunks dispatched in one run

\* dispatch(updateComment({ commentId, updates })): the slice exports the thunk, no
\* component of the repository dispatches it; the slice has no case for its pending
updateCommentDispatch(commentId, updates) ==
    /\ page = "detail"
    /\ Len(commentThunks) < MaxInFlight
    /\ hist.commentOps < MaxCommentOps
    /\ hist' = [hist EXCEPT !.commentOps = @ + 1]
    /\ commentThunks' = Append(commentThunks,
          [kind |-> "updateComment", commentId |-> commentId, updates |-> updates,
           pc |-> "store", error |-> None])
    /\ UNCHANGED <<postsState, commentsState, dbPosts, dbLikes, dbComments, user, toggles,
                   likedFetch, fetch, commentsFetch, page, thunks, form, edit, calls, clock,
                   commentForm, detail>>

\* updateComment: updateDoc(doc(db, 'comments', commentId), { ...updates, updatedAt }),
\* which throws when the document does not exist
updateCommentStore(i, ok) ==
    /\ i \in DOMAIN commentThunks
    /\ commentThunks[i].kind = "updateComment"
    /\ commentThunks[i].pc = "store"
    /\ LET t == commentThunks[i]
       IN IF ok /\ t.commentId \in DOMAIN dbComments
          THEN /\ dbComments' = [dbComments EXCEPT
                     ![t.commentId] = Merge(@, Stamped(t.updates))]
               /\ commentThunks' = [commentThunks EXCEPT ![i].pc = "fulfilled"]
          ELSE /\ dbComments' = dbComments
               /\ commentThunks' = [commentThunks EXCEPT ![i].pc = "rejected",
                                                         ![i].error = Refused]
    /\ UNCHANGED <<postsState, commentsState, dbPosts, dbLikes, user, toggles,
                   likedFetch, fetch, commentsFetch, page, thunks, form, edit, calls, clock,
                   commentForm, detail, hist>>

\* updateComment.fulfilled or .rejected
updateCommentSettle(i) ==
    /\ i \in DOMAIN commentThunks
    /\ commentThunks[i].kind = "updateComment"
    /\ commentThunks[i].pc \in {"fulfilled", "rejected"}
    /\ LET t == commentThunks[i]
       IN commentsState' =
            IF t.pc = "fulfilled"
            THEN updateCommentFulfilled(commentsState, t.commentId, t.updates)
            ELSE updateCommentRejected(commentsState, t.error)
    /\ commentThunks' = RemoveAt(commentThunks, i)
    /\ UNCHANGED <<postsState, dbPosts, dbLikes, dbComments, user, toggles,
                   likedFetch, fetch, commentsFetch, page, thunks, form, edit, calls, clock,
                   commentForm, detail, hist>>

\* dispatch(deleteComment(commentId)): exported by the slice and dispatched by no
\* component; the slice has no case for its pending
deleteCommentDispatch(commentId) ==
    /\ page = "detail"
    /\ Len(commentThunks) < MaxInFlight
    /\ hist.commentOps < MaxCommentOps
    /\ hist' = [hist EXCEPT !.commentOps = @ + 1]
    /\ commentThunks' = Append(commentThunks,
          [kind |-> "deleteComment", commentId |-> commentId, updates |-> <<>>,
           pc |-> "store", error |-> None])
    /\ UNCHANGED <<postsState, commentsState, dbPosts, dbLikes, dbComments, user, toggles,
                   likedFetch, fetch, commentsFetch, page, thunks, form, edit, calls, clock,
                   commentForm, detail>>

\* deleteComment: deleteDoc(doc(db, 'comments', commentId))
deleteCommentStore(i, ok) ==
    /\ i \in DOMAIN commentThunks
    /\ commentThunks[i].kind = "deleteComment"
    /\ commentThunks[i].pc = "store"
    /\ IF ok
       THEN /\ dbComments' = [q \in DOMAIN dbComments \ {commentThunks[i].commentId} |->
                                 dbComments[q]]
            /\ commentThunks' = [commentThunks EXCEPT ![i].pc = "fulfilled"]
       ELSE /\ dbComments' = dbComments
            /\ commentThunks' = [commentThunks EXCEPT ![i].pc = "rejected",
                                                      ![i].error = Refused]
    /\ UNCHANGED <<postsState, commentsState, dbPosts, dbLikes, user, toggles,
                   likedFetch, fetch, commentsFetch, page, thunks, form, edit, calls, clock,
                   commentForm, detail, hist>>

\* deleteComment.fulfilled or .rejected
deleteCommentSettle(i) ==
    /\ i \in DOMAIN commentThunks
    /\ commentThunks[i].kind = "deleteComment"
    /\ commentThunks[i].pc \in {"fulfilled", "rejected"}
    /\ LET t == commentThunks[i]
       IN commentsState' =
            IF t.pc = "fulfilled"
            THEN deleteCommentFulfilled(commentsState, t.commentId)
            ELSE deleteCommentRejected(commentsState, t.error)
    /\ commentThunks' = RemoveAt(commentThunks, i)
    /\ UNCHANGED <<postsState, dbPosts, dbLikes, dbComments, user, toggles,
                   likedFetch, fetch, commentsFetch, page, thunks, form, edit, calls, clock,
                   commentForm, detail, hist>>

\* time passes on the client
tick ==
    /\ clock < MaxMs
    /\ clock' = clock + 1
    /\ UNCHANGED <<postsState, commentsState, dbPosts, dbLikes, dbComments, user, toggles,
                   likedFetch, fetch, commentsFetch, page, thunks, form, edit, calls,
                   commentThunks, commentForm, detail, hist>>

(***************************************************************************)
(* Creating, updating and deleting, on the list page for the posts and on  *)
(* the detail page of post p1 for its comments. The user is signed in; on  *)
(* the list page the posts are loaded and the create form is filled in.    *)
(* The client's clock may be behind the store's.                           *)
(***************************************************************************)
CommentContents == {Text(4, 0), Text(5, 0)}
CommentUpdates == {[content |-> Text(7, 0)]}
CommentIds == {"c1", "c2"}

InitCrud ==
    /\ page \in {"list", "detail"}
    /\ clock \in 1..MaxMs
    /\ dbPosts = [p \in PostIds |->
          IF p = "p1"
          THEN [MkDoc("p1", sAnna, <<sReact>>, Timestamp(1, 0)) EXCEPT !.authorId = "u1"]
          ELSE MkDoc("p2", sBob, <<sredux>>, Timestamp(MaxMs, 0))]
    /\ dbComments = [id \in CommentIds |->
          IF id = "c1" THEN MkComment("c1", "p1", Timestamp(1, 0))
          ELSE MkComment("c2", "p1", Timestamp(MaxMs, 0))]
    /\ dbLikes = {}
    /\ postsState =
          IF page = "list"
          THEN [initialState EXCEPT !.posts = SortPosts(ToPosts(getDocsWithOrder(<<>>, <<>>)))]
          ELSE initialState
    /\ commentsState = initialComments
    /\ form = IF page = "list"
              THEN [formInitial EXCEPT
                      !.showPostForm = TRUE,
                      !.formData = [title |-> Text(5, 0), content |-> Text(10, 0),
                                    tags |-> <<sRx>>]]
              ELSE formInitial
    /\ commentForm = IF page = "detail"
                     THEN [commentFormInitial EXCEPT !.formData.content = Text(5, 0)]
                     ELSE commentFormInitial
    /\ detail = IF page = "detail" THEN [detailInitial EXCEPT !.postId = "p1"]
                ELSE detailInitial
    /\ user = "u1"
    /\ toggles = <<>>
    /\ likedFetch = <<>>
    /\ edit = editInitial
    /\ thunks = <<>>
    /\ commentThunks = <<>>
    /\ fetch = [pc |-> "idle"]
    /\ commentsFetch = [pc |-> "idle"]
    /\ calls = <<>>
    /\ hist = HistInit

NextCrud ==
    \/ tick
    \/ fetchPostsDispatch(<<>>, <<>>)
    \/ \E outcome \in {"ok"} \cup Errors : fetchPostsOrdered(outcome)
    \/ \E outcome \in {"ok"} \cup Errors : fetchPostsRetry(outcome)
    \/ fetchPostsSettle
    \/ onSubmit
    \/ \E ok \in BOOLEAN : onSubmitToken(ok)
    \/ \E i \in 1..MaxInFlight, outcome \in PrimaryOutcomes : createPostPrimary(i, outcome)
    \/ \E i \in 1..MaxInFlight, outcome \in FallbackOutcomes : createPostFallback(i, outcome)
    \/ \E i \in 1..MaxInFlight : createPostSettle(i)
    \/ handlePostCreated
    \/ \E p \in PostIds : beginEditPost(p)
    \/ \E p \in PostIds : submitEditPost(p)
    \/ \E i \in 1..MaxInFlight, ok \in BOOLEAN : updatePostStore(i, ok)
    \/ \E i \in 1..MaxInFlight : updatePostSettle(i)
    \/ \E p \in PostIds : handleDeletePost(p)
    \/ \E i \in 1..MaxInFlight, ok \in BOOLEAN : deletePostStore(i, ok)
    \/ \E i \in 1..MaxInFlight : deletePostSettle(i)
    \/ fetchCommentsDispatch("p1")
    \/ \E outcome \in {"ok"} \cup Errors : fetchCommentsOrdered(outcome)
    \/ \E outcome \in {"ok"} \cup Errors : fetchCommentsRetry(outcome)
    \/ fetchCommentsSettle
    \/ \E value \in CommentContents : commentChange(value)
    \/ commentSubmit
    \/ \E i \in 1..MaxInFlight, outcome \in PrimaryOutcomes : createCommentPrimary(i, outcome)
    \/ \E i \in 1..MaxInFlight, outcome \in FallbackOutcomes : createCommentFallback(i, outcome)
    \/ \E i \in 1..MaxInFlight : createCommentSettle(i)
    \/ \E id \in CommentIds, updates \in CommentUpdates : updateCommentDispatch(id, updates)
    \/ \E i \in 1..MaxInFlight, ok \in BOOLEAN : updateCommentStore(i, ok)
    \/ \E i \in 1..MaxInFlight : updateCommentSettle(i)
    \/ \E id \in CommentIds : deleteCommentDispatch(id)
    \/ \E i \in 1..MaxInFlight, ok \in BOOLEAN : deleteCommentStore(i, ok)
    \/ \E i \in 1..MaxInFlight : deleteCommentSettle(i)

SpecCrud == InitCrud /\ [][NextCrud]_vars

(***************************************************************************)
(* C11: rejected handlers                                                  *)
(***************************************************************************)
\* action.error.message of a rejected thunk: absent, a store error, the timeout
RejectedMessages == {"", Refused, TimedOut}

\* the posts cache after a rejected handler: a message, and the data as before
KeepsPosts(before, after) ==
    /\ after.error \notin {None, ""}
    /\ after.posts = before.posts
    /\ after.likedPostIds = before.likedPostIds
    /\ after.filters = before.filters

\* the comments cache after a rejected handler: a message, and the buckets as before
KeepsComments(before, after) ==
    /\ after.error \notin {None, ""}
    /\ after.commentsByPost = before.commentsByPost

\* C11: in every reachable state of either cache and for every message a rejection can
\* carry, each rejected handler (fetch, create, update, delete, like toggle) sets the
\* cache's error to a non-empty message and leaves posts, likedPostIds, filters and
\* commentsByPost as they were before it ran.
C11_RejectedKeepsData ==
    \A message \in RejectedMessages :
        /\ KeepsPosts(postsState, fetchPostsRejected(postsState, message))
        /\ KeepsPosts(postsState, createPostRejected(postsState, message))
        /\ KeepsPosts(postsState, updatePostRejected(postsState, message))
        /\ KeepsPosts(postsState, deletePostRejected(postsState, message))
        /\ KeepsPosts(postsState, toggleLikeRejected(postsState, message))
        /\ KeepsComments(commentsState, fetchCommentsRejected(commentsState, message))
        /\ KeepsComments(commentsState, createCommentRejected(commentsState, message))
        /\ KeepsComments(commentsState, updateCommentRejected(commentsState, message))
        /\ KeepsComments(commentsState, deleteCommentRejected(commentsState, message))

\* a createPost whose two paths failed has been rejected over a loaded list, or a comment
\* thunk has been rejected over a loaded bucket
C11_Witness ==
    \/ /\ postsState.error = TimedOut
       /\ Len(postsState.posts) = 2
    \/ /\ commentsState.error = Refused
       /\ "p1" \in DOMAIN commentsState.commentsByPost
       /\ Len(commentsState.commentsByPost["p1"]) = 2

(***************************************************************************)
(* C12: the two write paths of createPost and createComment                *)
(***************************************************************************)
\* one step of a create thunk, from record t to record u, over a collection that goes
\* from before to after: the steps the claim allows
CreateStep(t, u, before, after) ==
    /\ t.pc = "setDoc" => t.primaryError # None
    /\ (t.pc = "addDoc" /\ u.pc = "setDoc") => u.primaryError # None
    /\ (t.pc = "addDoc" /\ u.pc = "fulfilled") => u.primaryError = None
    /\ ~(t.pc = "addDoc" /\ u.pc = "rejected")
    /\ (t.pc = "setDoc" /\ u.pc = "fulfilled") =>
          LET id == IF t.kind = "createPost" THEN u.postId ELSE u.commentId
          IN /\ id \in DOMAIN after \ DOMAIN before
             /\ after[id].createdAt.kind = "iso"
    /\ (t.pc = "setDoc" /\ u.pc = "rejected") =>
          /\ u.alternativeError # None
          /\ u.error = t.primaryError

\* C12: a create thunk reaches setDoc only with an error thrown by the addDoc path; a
\* thunk fulfilled from setDoc carries the id of the document setDoc has just written;
\* a thunk rejected after both paths failed carries the error of the addDoc path.
C12_FallbackAfterPrimaryThrows ==
    [][/\ Len(thunks') = Len(thunks) =>
             \A i \in DOMAIN thunks :
                 thunks[i].kind = "createPost" =>
                     CreateStep(thunks[i], thunks'[i], dbPosts, dbPosts')
       /\ Len(commentThunks') = Len(commentThunks) =>
             \A i \in DOMAIN commentThunks :
                 commentThunks[i].kind = "createComment" =>
                     CreateStep(commentThunks[i], commentThunks'[i], dbComments, dbComments')
      ]_vars

\* both paths of a create have failed with different errors and the thunk is rejected
\* with the first
C12_Witness ==
    \/ \E i \in DOMAIN thunks :
          /\ thunks[i].kind = "createPost"
          /\ thunks[i].pc = "rejected"
          /\ thunks[i].alternativeError \notin {None, thunks[i].primaryError}
          /\ thunks[i].error = thunks[i].primaryError
    \/ \E i \in DOMAIN commentThunks :
          /\ commentThunks[i].kind = "createComment"
          /\ commentThunks[i].pc = "rejected"
          /\ commentThunks[i].alternativeError \notin {None, commentThunks[i].primaryError}
          /\ commentThunks[i].error = commentThunks[i].primaryError

(***************************************************************************)
(* C13, C14: the order of the cached posts and comments                    *)
(***************************************************************************)
\* no posts operation is in flight
PostsSettled == thunks = <<>> /\ fetch.pc \in {"idle", "done", "failed"}

\* no comments operation is in flight
CommentsSettled == commentThunks = <<>> /\ commentsFetch.pc \in {"idle", "done", "failed"}

\* C13: once every fetchPosts, createPost, updatePost and deletePost dispatched so far
\* has completed, state.posts is ordered by createdAt, newest first.
C13_PostsNewestFirst == PostsSettled => NewestFirst(postsState.posts)

\* C14: once every fetchComments, createComment, updateComment and deleteComment
\* dispatched so far has completed, every bucket of commentsByPost is ordered by
\* createdAt, newest first.
C14_BucketsNewestFirst ==
    CommentsSettled =>
        \A q \in DOMAIN commentsState.commentsByPost :
            NewestFirst(commentsState.commentsByPost[q])

(***************************************************************************)
(* C15: the list page with users signing in and out while posts are        *)
(* edited and deleted. p1 is u1's post, p2 is u0's.                        *)
(***************************************************************************)
Accounts == {"u0", "u1"}

InitAuth ==
    /\ InitList({"u0"})
    /\ postsState.likedPostIds = <<>>
    /\ DOMAIN commentsState.commentsByPost = {}
    /\ dbPosts["p1"].likes = 0

NextAuth ==
    \/ \E u \in Accounts \cup {None} : authStateChanged(u)
    \/ \E i \in 1..MaxRefresh : fetchLikedStatesRead(i, {})
    \/ \E i \in 1..MaxRefresh : fetchLikedStatesDone(i)
    \/ \E p \in PostIds : beginEditPost(p)
    \/ cancelEditPost
    \/ \E p \in PostIds : submitEditPost(p)
    \/ \E i \in 1..MaxInFlight, ok \in BOOLEAN : updatePostStore(i, ok)
    \/ \E i \in 1..MaxInFlight : updatePostSettle(i)
    \/ \E p \in PostIds : handleDeletePost(p)
    \/ \E i \in 1..MaxInFlight, ok \in BOOLEAN : deletePostStore(i, ok)
    \/ \E i \in 1..MaxInFlight : deletePostSettle(i)

SpecAuth == InitAuth /\ [][NextAuth]_vars

\* C15: whatever sign-ins, sign-outs, begun edits, submitted edits and deletes came
\* before, a step that dispatches updatePost or deletePost for a post is taken only
\* while a user is signed in whose uid is the authorId of that post.
C15_OnlyAuthorDispatches ==
    [][Len(thunks') = Len(thunks) + 1 =>
          LET t == thunks'[Len(thunks')]
          IN t.kind \in {"updatePost", "deletePost"} =>
                /\ user # None
                /\ Cached(t.postId)
                /\ PostOf(t.postId).authorId = user
      ]_vars

\* u0 has signed in after u1 and has an update or a delete of the own post p2 in flight,
\* while the edit form u1 opened on p1 may still be open
C15_Witness ==
    /\ hist.refreshes > 0
    /\ user = "u0"
    /\ \E i \in DOMAIN thunks :
          thunks[i].kind \in {"updatePost", "deletePost"} /\ thunks[i].postId = "p2"

(***************************************************************************)
(* C16: the order of the calls of one toggle                               *)
(***************************************************************************)
\* the step that takes toggle t to u is one the protocol allows
ToggleStep(t, u) ==
    LET ref == <<t.postId, t.userId>>
    IN /\ t.pc = "marker" =>
             /\ dbPosts' = dbPosts
             /\ \/ u.pc = "counter" /\ (ref \in dbLikes') = ~t.isLiked
                \/ u.pc = "rejected" /\ dbLikes' = dbLikes
       /\ t.pc = "counter" =>
             /\ dbLikes' = dbLikes
             /\ (ref \in dbLikes) = ~t.isLiked
             /\ \/ /\ u.pc = "fulfilled"
                   /\ dbPosts'[t.postId].likes =
                         dbPosts[t.postId].likes + (IF t.isLiked THEN -1 ELSE 1)
                \/ u.pc = "rejected" /\ dbPosts' = dbPosts
       /\ t.pc \in {"fulfilled", "rejected"} => dbPosts' = dbPosts /\ dbLikes' = dbLikes

\* C16: the step that issues a toggle applies the optimistic reducer and makes no store
\* call; afterwards the toggle first writes (like) or deletes (unlike) the marker with
\* the counter untouched, and only a toggle whose marker call succeeded adjusts the
\* counter, by exactly +1 for a like and -1 for an unlike; a toggle whose marker call
\* failed never touches the counter.
C16_MarkerBeforeCounter ==
    [][/\ Len(toggles') = Len(toggles) + 1 =>
             LET t == toggles'[Len(toggles')]
             IN /\ t.pc = "marker"
                /\ dbPosts' = dbPosts /\ dbLikes' = dbLikes
                /\ postsState' = optimisticToggleLike(postsState, t.postId,
                                                      IF t.isLiked THEN -1 ELSE 1, ~t.isLiked)
       /\ Len(toggles') = Len(toggles) =>
             \A i \in DOMAIN toggles :
                 toggles'[i] # toggles[i] => ToggleStep(toggles[i], toggles'[i])
       /\ dbPosts' # dbPosts =>
             \E i \in DOMAIN toggles : toggles[i].pc = "counter" /\ toggles'[i].pc = "fulfilled"
      ]_vars

\* a like has written its marker and then raised the stored counter by one
C16_Witness ==
    \E i \in DOMAIN toggles :
        /\ toggles[i].pc = "fulfilled"
        /\ ~toggles[i].isLiked
        /\ <<toggles[i].postId, toggles[i].userId>> \in dbLikes
        /\ hist.contrib[toggles[i].postId] = 1
        /\ hist.marker0 = {}

(***************************************************************************)
(* C17: toggles of p1 issued while earlier ones are in flight. The page    *)
(* starts with the signed-in user's liked posts and the counters as stored.*)
(***************************************************************************)
InitRace ==
    /\ \E l \in [PostIds -> 0..MaxLikes0], m \in SUBSET (PostIds \X Users) :
          /\ \A p \in PostIds : <<p, "u1">> \in m => l[p] >= 1
          /\ postsState = [initialState EXCEPT
                !.posts = <<MkPost("p1", l["p1"]), MkPost("p2", l["p2"])>>,
                !.likedPostIds = LET Marked(p) == <<p, "u1">> \in m
                                 IN Filter(<<"p1", "p2">>, Marked)]
          /\ dbPosts = [p \in PostIds |-> MkPost(p, l[p])]
          /\ dbLikes = m
          /\ hist = [HistInit EXCEPT
                !.expected = l, !.marker0 = m,
                !.contrib = [p \in PostIds |-> IF <<p, "u1">> \in m THEN 1 ELSE 0]]
    /\ commentsState = initialComments
    /\ dbComments = <<>>
    /\ user = "u1"
    /\ toggles = <<>>
    /\ likedFetch = <<>>
    /\ page = "list"
    /\ ViewInit

NextRace ==
    \/ handleToggleLike("p1")
    \/ \E i \in 1..MaxToggles, ok \in BOOLEAN : toggleLikeMarker(i, ok)
    \/ \E i \in 1..MaxToggles, ok \in BOOLEAN : toggleLikeCounter(i, ok)
    \/ \E i \in 1..MaxToggles : toggleLikeDone(i)
    \/ \E i \in 1..MaxToggles : toggleLikeFailed(i)
    \/ authStateChanged("u1")
    \/ \E i \in 1..MaxRefresh : fetchLikedStatesRead(i, {})
    \/ \E i \in 1..MaxRefresh : fetchLikedStatesDone(i)

SpecRace == InitRace /\ [][NextRace]_vars

\* what the client shows for post p differs from what the store holds for it
Diverged(p) ==
    \/ Liked(p) # (<<p, "u1">> \in dbLikes)
    \/ ShownLikes(p) # dbPosts[p].likes

\* C17: a click on the like button of a listed post is accepted whenever a user is
\* signed in, also while earlier toggles are in flight; the toggle it issues is a like
\* or an unlike according to the client's likedPostIds at the click; and once the
\* toggles have settled, a difference between what the client shows and what the store
\* holds stays until a fetch completes or another toggle is issued. (That two
\* overlapping toggles whose calls all succeeded can leave such a difference is the
\* reachability of C17_Witness.)
C17_RacingToggles ==
    [][/\ \A p \in PostIds :
             (user # None /\ Cached(p) /\ hist.issued < MaxToggles) =>
                 ENABLED handleToggleLike(p)
       /\ Len(toggles') = Len(toggles) + 1 =>
             LET t == toggles'[Len(toggles')]
             IN t.isLiked = Liked(t.postId)
       /\ \A p \in PostIds :
             (toggles = <<>> /\ toggles' = <<>> /\ postsState'.likedPostIds = postsState.likedPostIds
                  /\ Diverged(p)) => Diverged(p)'
      ]_vars

\* two toggles of p1 overlapped, every store call succeeded, both have settled and no
\* fetch has completed: the store holds the user's marker and the client shows the post
\* as not liked
C17_Witness ==
    /\ hist.issued = 2
    /\ hist.overlap
    /\ ~hist.failed
    /\ ~hist.refreshed
    /\ toggles = <<>>
    /\ <<"p1", "u1">> \in dbLikes
    /\ ~Liked("p1")

(***************************************************************************)
(* C18: the phases of create, update and delete in loading and error       *)
(***************************************************************************)
\* a step of the list of thunks ts to us, with the owning cache going from s to t:
\* dispatching a thunk, or settling one
Phases(ts, us, s, t) ==
    /\ Len(us) = Len(ts) + 1 => t.loading /\ t.error = None
    /\ Len(us) = Len(ts) - 1 =>
          /\ (us = <<>>) => ~t.loading
          /\ (t.error # s.error) =>
                \E i \in DOMAIN ts : ts[i].pc = "rejected" /\ us = RemoveAt(ts, i)
    /\ (Len(us) = Len(ts) /\ us # <<>>) => t.loading

\* C18: the step that dispatches a create, update or delete of a post or of a comment
\* leaves the owning cache with loading true and error cleared; loading stays true
\* while the operation is in flight and is false once the last one has settled; error
\* changes only when a rejected operation settles.
C18_LoadingAndErrorFollowPhases ==
    [][/\ Phases(thunks, thunks', postsState, postsState')
       /\ Phases(commentThunks, commentThunks', commentsState, commentsState')
      ]_vars

(***************************************************************************)
(* PostDetail (src/app/components/PostDetail.tsx): the like button of the  *)
(* detail page and the listener that reads the liked state. The page of    *)
(* post p1 has been mounted by the signed-in user: the post is loaded,     *)
(* liked is still false and the listener's first read is in flight.        *)
(***************************************************************************)
\* Math.max(0, (prev.likes || 0) + (liked ? 1 : -1)), liked being the flag the handler
\* closed over at the click
RevertedLikes(likes, liked, current) == Max(0, likes + (IF liked THEN 1 ELSE -1))

\* handleLike up to its first await: auth.currentUser, the loaded post, the optimistic
\* setPost and setLiked; the button is disabled while liking
handleLike ==
    /\ page = "detail"
    /\ user # None
    /\ detail.post # <<>>
    /\ ~detail.liking
    /\ detail.toggle = <<>>
    /\ hist.issued < MaxToggles
    /\ LET liked == detail.liked
       IN detail' = [detail EXCEPT
             !.liking = TRUE,
             !.post[1].likes = Max(0, @ + (IF liked THEN -1 ELSE 1)),
             !.liked = ~liked,
             !.toggle = <<[userId |-> user, liked |-> liked, pc |-> "marker",
                           likes0 |-> detail.post[1].likes, liked0 |-> liked]>>]
    /\ hist' = [hist EXCEPT !.issued = @ + 1, !.reverted = <<>>]
    /\ UNCHANGED <<postsState, commentsState, dbPosts, dbLikes, dbComments, user, toggles,
                   likedFetch, fetch, commentsFetch, page, thunks, form, edit, calls, clock,
                   commentThunks, commentForm>>

\* the catch block and finally of handleLike, on the state of the detail page
handleLikeCatch(d) ==
    [d EXCEPT !.post[1].likes = RevertedLikes(@, d.toggle[1].liked, d.liked),
              !.liked = ~@,
              !.liking = FALSE,
              !.toggle = <<>>]

\* the prior values a reverted toggle is compared with
Prior(t) == <<[postId |-> detail.postId, likes |-> t.likes0, liked |-> t.liked0]>>

\* handleLike: deleteDoc(likeRef) when liked, setDoc(likeRef, ...) otherwise; when the
\* call throws, catch and finally run
handleLikeMarker(ok) ==
    /\ detail.toggle # <<>>
    /\ detail.toggle[1].pc = "marker"
    /\ LET t == detail.toggle[1]
           ref == <<detail.postId, t.userId>>
       IN IF ok
          THEN /\ dbLikes' = IF t.liked THEN dbLikes \ {ref} ELSE dbLikes \cup {ref}
               /\ detail' = [detail EXCEPT !.toggle[1].pc = "counter"]
               /\ hist' = [hist EXCEPT !.reverted = <<>>]
          ELSE /\ dbLikes' = dbLikes
               /\ detail' = handleLikeCatch(detail)
               /\ hist' = [hist EXCEPT !.failed = TRUE, !.reverted = Prior(t)]
    /\ UNCHANGED <<postsState, commentsState, dbPosts, dbComments, user, toggles,
                   likedFetch, fetch, commentsFetch, page, thunks, form, edit, calls, clock,
                   commentThunks, commentForm>>

\* handleLike: updateDoc(doc(db, 'posts', post.id), { likes: increment(+-1) }); then
\* finally, or catch and finally when the call throws
handleLikeCounter(ok) ==
    /\ detail.toggle # <<>>
    /\ detail.toggle[1].pc = "counter"
    /\ LET t == detail.toggle[1]
       IN IF ok /\ detail.postId \in DOMAIN dbPosts
          THEN /\ dbPosts' = [dbPosts EXCEPT
                     ![detail.postId].likes = FieldIncrement(@, IF t.liked THEN -1 ELSE 1)]
               /\ detail' = [detail EXCEPT !.liking = FALSE, !.toggle = <<>>]
               /\ hist' = [hist EXCEPT !.reverted = <<>>]
          ELSE /\ dbPosts' = dbPosts
               /\ detail' = handleLikeCatch(detail)
               /\ hist' = [hist EXCEPT !.failed = TRUE, !.reverted = Prior(t)]
    /\ UNCHANGED <<postsState, commentsState, dbLikes, dbComments, user, toggles,
                   likedFetch, fetch, commentsFetch, page, thunks, form, edit, calls, clock,
                   commentThunks, commentForm>>

\* the listener of auth.onAuthStateChanged: a read of the like marker for a user,
\* setLiked(false) for none
likedStateListener(current) ==
    /\ page = "detail"
    /\ hist.refreshes < MaxRefresh
    /\ user' = current
    /\ detail' = IF current # None
                 THEN [detail EXCEPT !.reads = Append(@, [userId |-> current, pc |-> "getDoc",
                                                          exists |-> FALSE])]
                 ELSE [detail EXCEPT !.liked = FALSE]
    /\ hist' = [hist EXCEPT !.refreshes = @ + 1, !.reverted = <<>>]
    /\ UNCHANGED <<postsState, commentsState, dbPosts, dbLikes, dbComments, toggles,
                   likedFetch, fetch, commentsFetch, page, thunks, form, edit, calls, clock,
                   commentThunks, commentForm>>

\* getDocOnce(doc(db, 'posts', postId, 'likes', current.uid)) is answered by the store;
\* a read that throws counts as not liked
likedStateRead(i, ok) ==
    /\ i \in DOMAIN detail.reads
    /\ detail.reads[i].pc = "getDoc"
    /\ detail' = [detail EXCEPT
          !.reads[i].pc = "setLiked",
          !.reads[i].exists = ok /\ <<detail.postId, detail.reads[i].userId>> \in dbLikes]
    /\ hist' = [hist EXCEPT !.reverted = <<>>]
    /\ UNCHANGED <<postsState, commentsState, dbPosts, dbLikes, dbComments, user, toggles,
                   likedFetch, fetch, commentsFetch, page, thunks, form, edit, calls, clock,
                   commentThunks, commentForm>>

\* setLiked(likeDoc.exists()) when the listener's await resumes
likedStateSet(i) ==
    /\ i \in DOMAIN detail.reads
    /\ detail.reads[i].pc = "setLiked"
    /\ detail' = [detail EXCEPT !.liked = detail.reads[i].exists,
                                !.reads = RemoveAt(@, i)]
    /\ hist' = [hist EXCEPT !.refreshed = TRUE, !.reverted = <<>>]
    /\ UNCHANGED <<postsState, commentsState, dbPosts, dbLikes, dbComments, user, toggles,
                   likedFetch, fetch, commentsFetch, page, thunks, form, edit, calls, clock,
                   commentThunks, commentForm>>

InitDetail ==
    /\ \E l \in 0..MaxLikes0, m \in SUBSET ({"p1"} \X Users) :
          /\ <<"p1", "u1">> \in m => l >= 1
          /\ dbPosts = [p \in PostIds |-> MkPost(p, IF p = "p1" THEN l ELSE 0)]
          /\ dbLikes = m
          /\ hist = [HistInit EXCEPT !.marker0 = m]
    /\ postsState = initialState
    /\ commentsState = initialComments
    /\ dbComments = <<>>
    /\ user = "u1"
    /\ toggles = <<>>
    /\ likedFetch = <<>>
    /\ page = "detail"
    /\ form = formInitial
    /\ edit = editInitial
    /\ thunks = <<>>
    /\ fetch = [pc |-> "idle"]
    /\ commentsFetch = [pc |-> "idle"]
    /\ calls = <<>>
    /\ clock = MaxMs
    /\ commentThunks = <<>>
    /\ commentForm = commentFormInitial
    /\ detail = [detailInitial EXCEPT
          !.postId = "p1",
          !.post = <<dbPosts["p1"]>>,
          !.reads = <<[userId |-> "u1", pc |-> "getDoc", exists |-> FALSE]>>]

NextDetail ==
    \/ handleLike
    \/ \E ok \in BOOLEAN : handleLikeMarker(ok)
    \/ \E ok \in BOOLEAN : handleLikeCounter(ok)
    \/ \E current \in Users \cup {None} : likedStateListener(current)
    \/ \E i \in 1..(MaxRefresh + 1), ok \in BOOLEAN : likedStateRead(i, ok)
    \/ \E i \in 1..(MaxRefresh + 1) : likedStateSet(i)

SpecDetail == InitDetail /\ [][NextDetail]_vars

\* C19: right after a store call of handleLike has failed and the catch block has run,
\* the displayed likes counter and the liked flag are the ones shown immediately before
\* the optimistic change.
C19_FailureRestoresDetail ==
    hist.reverted # <<>> =>
        /\ detail.post[1].likes = hist.reverted[1].likes
        /\ detail.liked = hist.reverted[1].liked

(***************************************************************************)
(* C20: what an update changes                                             *)
(***************************************************************************)
\* record after is record before with exactly the fields of updates replaced
OnlyUpdated(before, after, updates) ==
    /\ DOMAIN after = DOMAIN before \cup DOMAIN updates
    /\ \A f \in DOMAIN after :
          after[f] = IF f \in DOMAIN updates THEN updates[f] ELSE before[f]

\* C20: the step in which updatePost.fulfilled is reduced replaces, in the cached post
\* with the thunk's postId, exactly the fields present in updates and leaves its other
\* fields, every other post and likedPostIds as they were; the step in which the
\* thunk's updateDoc is applied changes only that post's document, by exactly the
\* fields of updates and an updatedAt assigned by the store.
C20_UpdateReplacesOnlyGivenFields ==
    [][\A i \in DOMAIN thunks :
          thunks[i].kind = "updatePost" =>
             LET t == thunks[i]
             IN /\ (t.pc = "fulfilled" /\ thunks' = RemoveAt(thunks, i)) =>
                      /\ Len(postsState'.posts) = Len(postsState.posts)
                      /\ \A k \in DOMAIN postsState.posts :
                            LET post == postsState.posts[k]
                            IN IF post.id = t.postId
                               THEN OnlyUpdated(post, postsState'.posts[k], t.updates)
                               ELSE postsState'.posts[k] = post
                      /\ postsState'.likedPostIds = postsState.likedPostIds
                /\ (t.pc = "store" /\ Len(thunks') = Len(thunks)
                        /\ thunks'[i].pc = "fulfilled") =>
                      /\ DOMAIN dbPosts' = DOMAIN dbPosts
                      /\ \A p \in DOMAIN dbPosts :
                            IF p = t.postId
                            THEN OnlyUpdated(dbPosts[p], dbPosts'[p],
                                    [f \in DOMAIN t.updates \cup {"updatedAt"} |->
                                        IF f = "updatedAt" THEN Timestamp(ServerNow, 0)
                                        ELSE t.updates[f]])
                            ELSE dbPosts'[p] = dbPosts[p]
      ]_vars

\* an edited title has been written to the store with the store's updatedAt and reduced
\* into the cached post, whose updatedAt is still the old one
C20_Witness ==
    /\ thunks = <<>>
    /\ Cached("p1")
    /\ PostOf("p1").title = Text(101, 0)
    /\ PostOf("p1").updatedAt = IsoString(1)
    /\ dbPosts["p1"].title = Text(101, 0)
    /\ dbPosts["p1"].updatedAt = Timestamp(ServerNow, 0)

(***************************************************************************)
(* C21: fetchPosts over posts whose createdAt is a timestamp, a string, a  *)
(* number, absent, or a string that is no date.                            *)
(***************************************************************************)
SortTimes ==
    {Timestamp(1, 0), Timestamp(MaxMs, 0), IsoString(1), Millis(MaxMs), NoTime, Unparseable}

InitSort ==
    /\ \E t1, t2, t3 \in SortTimes :
          dbPosts = [id \in {"p1", "p2", "p3"} |->
                        CASE id = "p1" -> MkDoc("p1", sAnna, <<sReact>>, t1)
                          [] id = "p2" -> MkDoc("p2", sBob, <<sredux, sRx>>, t2)
                          [] id = "p3" -> MkDoc("p3", sBob, <<sReact>>, t3)]
    /\ dbComments = <<>>
    /\ dbLikes = {}
    /\ postsState = initialState
    /\ commentsState = initialComments
    /\ user = None
    /\ toggles = <<>>
    /\ likedFetch = <<>>
    /\ page = "list"
    /\ hist = HistInit
    /\ ViewInit

NextSort ==
    \/ \E a \in {<<>>, sann} : fetchPostsDispatch(a, <<>>)
    \/ \E outcome \in {"ok", "index"} : fetchPostsOrdered(outcome)
    \/ \E outcome \in {"ok", "permission-denied"} : fetchPostsRetry(outcome)
    \/ \E outcome \in {"ok", "permission-denied"} : fetchPostsFallback(outcome)
    \/ fetchPostsSettle

SpecSort == InitSort /\ [][NextSort]_vars

\* a createdAt the sort is to count as 0: absent, or a string that is no date
Unusable(t) == t.kind \in {"none", "bad"}

\* C21: in the list fetchPosts returns, no post whose createdAt is missing or
\* unparseable stands before a post with a valid createdAt (a timestamp, a date string
\* or a number).
C21_UnusableSortLast ==
    Returned(fetch) =>
        \A i, j \in DOMAIN fetch.payload :
            (i < j /\ Unusable(fetch.payload[i].createdAt))
                => Unusable(fetch.payload[j].createdAt)

(***************************************************************************)
(* C22: likes and a reload of the list. The list page of SpecRace, where   *)
(* toggles of p1 overlap, and one fetchPosts without filters.              *)
(***************************************************************************)
NextCounter ==
    \/ handleToggleLike("p1")
    \/ \E i \in 1..MaxToggles, ok \in BOOLEAN : toggleLikeMarker(i, ok)
    \/ \E i \in 1..MaxToggles, ok \in BOOLEAN : toggleLikeCounter(i, ok)
    \/ \E i \in 1..MaxToggles : toggleLikeDone(i)
    \/ \E i \in 1..MaxToggles : toggleLikeFailed(i)
    \/ fetchPostsDispatch(<<>>, <<>>)
    \/ \E outcome \in {"ok", "permission-denied"} : fetchPostsOrdered(outcome)
    \/ fetchPostsSettle

SpecCounter == InitRace /\ [][NextCounter]_vars

\* C22: in every reachable state of the posts cache the likes of every post are 0 or
\* more.
C22_CachedLikesNonNegative ==
    \A i \in DOMAIN postsState.posts : postsState.posts[i].likes >= 0

(***************************************************************************)
(* C23: the comment form of the detail page of p1, with contents at the    *)
(* bounds of the schema.                                                   *)
(***************************************************************************)
BoundaryContents ==
    {Text(0, 0), Text(4, 0), Text(5, 0), Text(5, 5), Text(1000, 0), Text(1001, 0)}

InitComment ==
    /\ InitCrud
    /\ page = "detail"

NextComment ==
    \/ tick
    \/ \E value \in BoundaryContents : commentChange(value)
    \/ commentSubmit
    \/ \E i \in 1..MaxInFlight, outcome \in PrimaryOutcomes : createCommentPrimary(i, outcome)
    \/ \E i \in 1..MaxInFlight, outcome \in FallbackOutcomes : createCommentFallback(i, outcome)
    \/ \E i \in 1..MaxInFlight : createCommentSettle(i)

SpecComment == InitComment /\ [][NextComment]_vars

\* C23: a submit of the comment form dispatches createComment, with the content of the
\* form, exactly when that content has 5 to 1000 characters; any other submit sets an
\* error on the content field, dispatches nothing and leaves the store as it is; and
\* createComment is dispatched by no other step.
C23_CommentWithinBounds ==
    [][/\ hist'.submits = hist.submits + 1 =>
             LET content == commentForm.formData.content
             IN IF content.len >= 5 /\ content.len <= 1000
                THEN /\ Len(commentThunks') = Len(commentThunks) + 1
                     /\ commentThunks'[Len(commentThunks')].kind = "createComment"
                     /\ commentThunks'[Len(commentThunks')].updates.content = content
                ELSE /\ commentThunks' = commentThunks
                     /\ commentForm'.fieldErrors.content # None
                     /\ dbComments' = dbComments
       /\ Len(commentThunks') = Len(commentThunks) + 1 => hist'.submits = hist.submits + 1
       /\ dbComments' # dbComments =>
             \E i \in DOMAIN commentThunks : commentThunks[i].pc \in {"addDoc", "setDoc"}
      ]_vars

\* a comment of 1001 characters has been submitted: the field carries the error and no
\* thunk was dispatched
C23_Witness ==
    /\ hist.submits = 1
    /\ commentForm.formData.content = Text(1001, 0)
    /\ commentForm.fieldErrors.content = "max1000"
    /\ commentThunks = <<>>
    /\ DOMAIN dbComments = CommentIds

(***************************************************************************)
(* C24: toggles issued one after the other by the signed-in user, each     *)
(* store call succeeding or failing on its own. The page starts with the   *)
(* liked set equal to the user's markers.                                  *)
(***************************************************************************)
NextMarker ==
    \/ \E p \in PostIds : handleToggleLikeSeq(p)
    \/ \E i \in 1..MaxToggles, ok \in BOOLEAN : toggleLikeMarker(i, ok)
    \/ \E i \in 1..MaxToggles, ok \in BOOLEAN : toggleLikeCounter(i, ok)
    \/ \E i \in 1..MaxToggles : toggleLikeDone(i)
    \/ \E i \in 1..MaxToggles : toggleLikeFailed(i)

SpecMarker == InitRace /\ [][NextMarker]_vars

\* C24: while no toggle and no liked-state fetch is in flight, a post is in likedPostIds
\* exactly when the store holds the signed-in user's like marker for it.
C24_LikedIffMarker ==
    (user # None /\ toggles = <<>> /\ likedFetch = <<>>) =>
        \A p \in PostIds : Liked(p) <=> (<<p, user>> \in dbLikes)

(***************************************************************************)
(* C25: the documents written by the create thunks.                        *)
(***************************************************************************)
CreatedPosts == DOMAIN dbPosts \cap Elements(NewDocIds)

CreatedComments == DOMAIN dbComments \cap Elements(NewCommentIds)

\* C25: the store holds at most one new post document, and at most one new comment
\* document, for each submit that has been made, also when addDoc loses the race against
\* the timeout, the setDoc fallback runs and the addDoc is applied all the same.
C25_OneDocumentPerCreate ==
    /\ Cardinality(CreatedPosts) <= hist.submits
    /\ Cardinality(CreatedComments) <= hist.submits

(***************************************************************************)
(* C26: fetchPosts thunks in flight at once. PostList's effect dispatches  *)
(* one when the component mounts and one whenever the applied filters      *)
(* change; nothing cancels or orders the earlier ones                      *)
(* (src/app/components/PostList.tsx, lines 79-82; src/unnamed/part_000,    *)
(* lines 301-312).                                                         *)
(***************************************************************************)
MaxFetches == 3      \* fetchPosts dispatched in one run

\* PostList renders the list, and with it the filters and the like buttons, only when the
\* cache is neither loading nor in error; the error screen offers a button that
\* dispatches fetchPosts
Displayed == ~postsState.loading /\ postsState.error = None

\* the effect runs with the applied filters: fetchPosts.pending
fetchPostsEffect(authorFilter, tagFilter) ==
    /\ hist.fetched < MaxFetches
    /\ Len(thunks) < MaxInFlight
    /\ postsState' = fetchPostsPending(postsState)
    /\ thunks' = Append(thunks,
          [kind |-> "fetchPosts", order |-> hist.fetched + 1, pc |-> "ordered",
           authorFilter |-> authorFilter, tagFilter |-> tagFilter,
           path |-> "ordered", resultPosts |-> <<>>, payload |-> <<>>,
           thrown |-> <<>>, message |-> None])
    /\ hist' = [hist EXCEPT
          !.fetched = @ + 1, !.args = <<authorFilter, tagFilter>>,
          !.same = @ \/ \E i \in DOMAIN thunks :
                            /\ thunks[i].authorFilter = authorFilter
                            /\ thunks[i].tagFilter = tagFilter]
    /\ UNCHANGED <<clock, commentThunks, commentForm, detail, commentsState, dbPosts, dbLikes,
                   dbComments, user, toggles, likedFetch, fetch, commentsFetch, page, form,
                   edit, calls>>

\* a query of the i-th thunk answers: the ordered one, the one without the sort clause
\* or the one of the whole collection, as in fetchPostsOrdered, fetchPostsRetry and
\* fetchPostsFallback
fetchPostsAnswer(i, outcome) ==
    /\ i \in DOMAIN thunks
    /\ thunks[i].kind = "fetchPosts"
    /\ thunks[i].pc \in {"ordered", "retry", "fallback"}
    /\ LET f == thunks[i]
           Hit(post) == PartialMatch(post, f.authorFilter, f.tagFilter)
           thrown == Append(f.thrown, <<f.pc, outcome>>)
           next ==
               CASE f.pc = "ordered" /\ outcome = "ok" ->
                        AfterSnapshot(f, getDocsWithOrder(f.authorFilter, f.tagFilter))
                 [] f.pc = "ordered" /\ IndexRequired(outcome) ->
                        [f EXCEPT !.pc = "retry", !.path = "retry", !.thrown = thrown]
                 [] f.pc = "retry" /\ outcome = "ok" ->
                        AfterSnapshot(f, getDocsWithoutOrder(f.authorFilter, f.tagFilter))
                 [] f.pc = "fallback" /\ outcome = "ok" ->
                        [f EXCEPT !.pc = "fulfilled", !.path = "fallback",
                                  !.resultPosts = Filter(ToPosts(getDocsWithoutOrder(<<>>, <<>>)), Hit),
                                  !.payload = SortPosts(Filter(ToPosts(getDocsWithoutOrder(<<>>, <<>>)), Hit))]
                 [] f.pc = "fallback" /\ outcome # "ok" ->
                        [f EXCEPT !.pc = "fulfilled", !.path = "fallback",
                                  !.payload = SortPosts(f.resultPosts), !.thrown = thrown]
                 [] OTHER ->
                        [f EXCEPT !.pc = "rejected", !.message = outcome, !.thrown = thrown]
       IN thunks' = [thunks EXCEPT ![i] = next]
    /\ UNCHANGED <<clock, commentThunks, commentForm, detail, postsState, commentsState, dbPosts,
                   dbLikes, dbComments, user, toggles, likedFetch, fetch, commentsFetch, page,
                   form, edit, calls, hist>>

\* the i-th thunk settles: fetchPosts.fulfilled or fetchPosts.rejected
fetchPostsSettled(i) ==
    /\ i \in DOMAIN thunks
    /\ thunks[i].kind = "fetchPosts"
    /\ thunks[i].pc \in {"fulfilled", "rejected"}
    /\ LET f == thunks[i]
       IN /\ postsState' =
                IF f.pc = "fulfilled" THEN fetchPostsFulfilled(postsState, f.payload)
                ELSE fetchPostsRejected(postsState, f.message)
          /\ hist' = [hist EXCEPT
                !.failed = @ \/ f.pc = "rejected",
                !.last = IF f.order = hist.fetched /\ f.pc = "fulfilled"
                         THEN <<f.payload>> ELSE @]
    /\ thunks' = RemoveAt(thunks, i)
    /\ UNCHANGED <<clock, commentThunks, commentForm, detail, commentsState, dbPosts, dbLikes,
                   dbComments, user, toggles, likedFetch, fetch, commentsFetch, page, form,
                   edit, calls>>

\* PostList mounts, at first or after a navigation away and back: its applied filters
\* are the initial '' and the effect runs, whatever the cache holds
mountPostList ==
    /\ page = "list"
    /\ fetchPostsEffect(<<>>, <<>>)

\* the filter buttons of the displayed list: setAppliedAuthorFilter(authorFilter.trim())
\* and setAppliedTagFilter(tagFilter.trim()); the effect runs when the applied filters
\* have changed
setAppliedFilters(authorFilter, tagFilter) ==
    /\ page = "list"
    /\ hist.fetched > 0
    /\ Displayed
    /\ hist.args # <<trim(authorFilter), trim(tagFilter)>>
    /\ fetchPostsEffect(trim(authorFilter), trim(tagFilter))

InitOverlap ==
    /\ InitFetch
    /\ page = "list"
    /\ dbPosts["p1"].createdAt = Timestamp(1, 0)
    /\ dbPosts["p2"].createdAt = Timestamp(MaxMs, 0)
    /\ dbPosts["p3"].createdAt = IsoString(1)

NextOverlap ==
    \/ mountPostList
    \/ \E a \in AuthorFilters, t \in TagFilters : setAppliedFilters(a, t)
    \/ \E i \in 1..MaxInFlight, outcome \in {"ok", "index", "permission-denied"} :
          fetchPostsAnswer(i, outcome)
    \/ \E i \in 1..MaxInFlight : fetchPostsSettled(i)

SpecOverlap == InitOverlap /\ [][NextOverlap]_vars

\* C26: once every fetchPosts dispatched has completed, none of them rejected and no two
\* in flight together with the same filters, the cached list is the result of the call
\* that was dispatched last.
C26_LastDispatchedWins ==
    (thunks = <<>> /\ hist.fetched >= 2 /\ ~hist.failed /\ ~hist.same /\ hist.last # <<>>) =>
        postsState.posts = hist.last[1]

(***************************************************************************)
(* C27: what the create forms show when their thunk settles.               *)
(***************************************************************************)
\* C27: when a create thunk settles as rejected, the form that dispatched it does not set
\* the success message and keeps the data entered; when it settles as fulfilled, the
\* form sets the success message and resets its fields.
C27_SuccessOnlyWhenFulfilled ==
    [][/\ \A i \in DOMAIN thunks :
             (thunks[i].kind = "createPost" /\ thunks' = RemoveAt(thunks, i) /\ form.mounted) =>
                 IF thunks[i].pc = "rejected"
                 THEN form'.submitMessage # "created" /\ form'.formData = form.formData
                 ELSE form'.submitMessage = "created" /\ form'.formData = formInitial.formData
       /\ \A i \in DOMAIN commentThunks :
             (commentThunks[i].kind = "createComment" /\ commentThunks' = RemoveAt(commentThunks, i)) =>
                 IF commentThunks[i].pc = "rejected"
                 THEN /\ commentForm'.submitMessage # "created"
                      /\ commentForm'.formData = commentForm.formData
                 ELSE /\ commentForm'.submitMessage = "created"
                      /\ commentForm'.formData = commentFormInitial.formData
      ]_vars

(***************************************************************************)
(* C28: the error of the posts cache when an operation completes.          *)
(***************************************************************************)
handleToggleLikeDisplayed(p) == Displayed /\ handleToggleLike(p)

handleRefresh == postsState.error # None /\ fetchPostsDispatch(<<>>, <<>>)

NextError ==
    \/ \E p \in PostIds : handleToggleLikeDisplayed(p)
    \/ \E i \in 1..MaxToggles, ok \in BOOLEAN : toggleLikeMarker(i, ok)
    \/ \E i \in 1..MaxToggles, ok \in BOOLEAN : toggleLikeCounter(i, ok)
    \/ \E i \in 1..MaxToggles : toggleLikeDone(i)
    \/ \E i \in 1..MaxToggles : toggleLikeFailed(i)
    \/ handleRefresh
    \/ \E outcome \in {"ok", "permission-denied"} : fetchPostsOrdered(outcome)
    \/ fetchPostsSettle

SpecError == InitRace /\ [][NextError]_vars

\* C28: when a posts operation completes, the cache's error is a message if the operation
\* was rejected and null if it was fulfilled.
C28_ErrorFollowsLastOperation ==
    [][/\ \A i \in DOMAIN toggles :
             toggles' = RemoveAt(toggles, i) =>
                 IF toggles[i].pc = "fulfilled" THEN postsState'.error = None
                 ELSE postsState'.error # None
       /\ \A i \in DOMAIN thunks :
             (thunks' = RemoveAt(thunks, i)
                  /\ thunks[i].kind \in {"createPost", "updatePost", "deletePost"}) =>
                 IF thunks[i].pc = "fulfilled" THEN postsState'.error = None
                 ELSE postsState'.error # None
      ]_vars

(***************************************************************************)
(* C29: the loading flags and the operations in flight.                    *)
(***************************************************************************)
\* a fetchPosts or createPost thunk has been dispatched and has not settled
PostsInFlight ==
    \/ fetch.pc \in {"ordered", "retry", "fallback", "fulfilled", "rejected"}
    \/ \E i \in DOMAIN thunks : thunks[i].kind \in {"fetchPosts", "createPost"}

\* a fetchComments or createComment thunk has been dispatched and has not settled
CommentsInFlight ==
    \/ commentsFetch.pc \in {"ordered", "retry", "fulfilled", "rejected"}
    \/ \E i \in DOMAIN commentThunks : commentThunks[i].kind = "createComment"

\* C29: the loading flag of each cache is true exactly while a fetch or a create of that
\* cache is in flight.
C29_LoadingWhileInFlight ==
    /\ postsState.loading <=> PostsInFlight
    /\ commentsState.loading <=> CommentsInFlight

(***************************************************************************)
(* C30: the liked set after a sign-out.                                    *)
(***************************************************************************)
\* C30: while no user is signed in and no toggle or liked-state fetch is in flight,
\* likedPostIds is empty: no post is displayed as liked.
C30_SignedOutNothingLiked ==
    (user = None /\ toggles = <<>> /\ likedFetch = <<>>) => postsState.likedPostIds = <<>>

====
